---------------------------- MODULE Spec2Model ----------------------------
(***************************************************************************)
(* Bare browser: the navigation front end (src/src/js/state.js,            *)
(* navigation.js, bookmarks.js) and the Gemini/Gopher retrieval core       *)
(* (gemini.rs / gopher.rs, described in spec.md, src/unnamed/part_004 and  *)
(* src/GOPHER.md).                                                         *)
(*                                                                         *)
(* Strings are sequences of lexemes: <<"https://", "a">> is the string     *)
(* "https://a".  startsWith is a test of the first lexeme, concatenation   *)
(* is \o, and the empty sequence stands for JavaScript's falsy strings     *)
(* (null, undefined, "").                                                  *)
(***************************************************************************)
EXTENDS Integers, Sequences, FiniteSets, TLC

\* ------------------------------------------------------------------ bounds
MaxHist == 2          \* longest history explored by the navigation model
MaxPending == 1       \* backend calls in flight at once
MaxOps == 3           \* operations applied by the history-only model
HistSlack == 2        \* the history-only model starts within this of full
MaxExtraRedirects == 2   \* redirect responses served beyond MAX_REDIRECTS to one fetch
MaxRaceRedirects == 1    \* redirect responses served to two concurrent fetches
SmallLen == 100          \* the length of a short URL or response

\* ------------------------------------------------------- program constants
MAX_HISTORY_SIZE == 50
HOME_PATH == <<"__home__">>
CONVERSION_PROMPT_PREFIX == "CONVERSION_PROMPT:"
GEMINI_SCHEME == "gemini://"
GEMINI_INPUT_PROMPT_PREFIX == "GEMINI_INPUT_PROMPT:"
GEMINI_SENSITIVE_INPUT_PROMPT_PREFIX == "GEMINI_SENSITIVE_INPUT_PROMPT:"

NULL == <<>>

\* a || b in JavaScript, on strings
Or(a, b) == IF a # NULL THEN a ELSE b

startsWith(s, prefix) == Len(s) > 0 /\ s[1] = prefix

\* ----------------------------------------------------- locations and inputs
HttpA == <<"https://", "a">>
HttpB == <<"https://", "b">>
GemA == <<"gemini://", "a">>
GemB == <<"gemini://", "b">>
FileA == <<"/", "a.md">>

\* what a user can ask for: a link, a typed URL, a chosen file
Requests == {HttpA, GemA, FileA}

\* the final URL a backend result may carry for a request (none, or a URL)
ResultUrls(url) ==
    IF url = HttpA THEN {NULL, HttpA, HttpB}
    ELSE IF url = HttpB THEN {NULL, HttpB}
    ELSE IF url = GemA THEN {NULL, GemA, GemB}
    ELSE IF url = GemB THEN {NULL, GemB}
    ELSE {NULL}

InputTexts == {<<"x">>}

VARIABLES
    history, historyIndex, currentPath, currentUrl,   \* state.js
    urlBar, content,                                   \* dom elements
    geminiInputUrl, dialogOpen, dialogSensitive,       \* Gemini input dialog
    pending,                                           \* backend calls awaited
    bf,                                                \* observer: a back/forward round trip
    opCount,                                           \* history-only model: operations applied
    known, lock,                                       \* the trust store and its mutex
    task,                                              \* the fetch tasks of the retrieval core
    budget,                                            \* fetches and redirect responses yet to come
    first, firstUses,                                  \* observers of the trust store
    arg, ret,                                          \* a pure function's input and result
    bookmarksPanelHidden, settingsPanelHidden,         \* class 'hidden' of the side panels
    btnBackDisabled, btnForwardDisabled,               \* the Back and Forward buttons
    bookmarks,                                         \* the backend's bookmark list
    btnBookmarked,                                     \* class 'bookmarked' of the bookmark button
    toggles,                                           \* the toggleBookmark calls and where each stands
    beganBookmarked                                    \* observer: the page's status before the toggles

frontVars == <<history, historyIndex, currentPath, currentUrl, urlBar, content,
               geminiInputUrl, dialogOpen, dialogSensitive, pending, bf, opCount>>
fetchVars == <<known, lock, task, budget, first, firstUses>>
pureVars == <<arg, ret>>
panelVars == <<bookmarksPanelHidden, settingsPanelHidden>>
buttonVars == <<btnBackDisabled, btnForwardDisabled>>
bookmarkVars == <<bookmarks, btnBookmarked, toggles, beganBookmarked>>
vars == <<frontVars, fetchVars, pureVars, panelVars, buttonVars, bookmarkVars>>

\* no bookmark, no toggleBookmark call
BookmarkIdle ==
    /\ bookmarks = <<>>
    /\ btnBookmarked = FALSE
    /\ toggles = <<>>
    /\ beganBookmarked = FALSE

\* ------------------------------------------------------------ state.js
\* history.slice(0, end)
slice(h, end) == SubSeq(h, 1, end)

\* addToHistory that keeps the entries after historyIndex
addToHistory_KeepsForward(h, i, path) ==
    LET h2 == Append(h, path)
        i2 == Len(h2) - 1
    IN  IF Len(h2) > MAX_HISTORY_SIZE
        THEN [history |-> Tail(h2), historyIndex |-> i2 - 1, currentPath |-> path]
        ELSE [history |-> h2, historyIndex |-> i2, currentPath |-> path]

\* addToHistory without the size limit
addToHistory_Unlimited(h, i, path) ==
    LET h1 == IF i < Len(h) - 1 THEN slice(h, i + 1) ELSE h
        h2 == Append(h1, path)
    IN  [history |-> h2, historyIndex |-> Len(h2) - 1, currentPath |-> path]

addToHistory(h, i, path) ==
    LET h1 == IF i < Len(h) - 1 THEN slice(h, i + 1) ELSE h
        h2 == Append(h1, path)
        i2 == Len(h2) - 1
    IN  IF Len(h2) > MAX_HISTORY_SIZE
        THEN [history |-> Tail(h2), historyIndex |-> i2 - 1, currentPath |-> path]
        ELSE [history |-> h2, historyIndex |-> i2, currentPath |-> path]

canGoBack(i) == i > 0

canGoForward(h, i) == i < Len(h) - 1

\* the entry of the 0-based index i
At(h, i) == h[i + 1]

\* historyBack without the canGoBack test
historyBack_Unguarded(h, i) ==
    [historyIndex |-> i - 1, path |-> IF i > 0 THEN At(h, i - 1) ELSE NULL]

historyBack(h, i) ==
    IF canGoBack(i)
    THEN [historyIndex |-> i - 1, path |-> At(h, i - 1)]
    ELSE [historyIndex |-> i, path |-> NULL]

historyForward(h, i) ==
    IF canGoForward(h, i)
    THEN [historyIndex |-> i + 1, path |-> At(h, i + 1)]
    ELSE [historyIndex |-> i, path |-> NULL]

\* ------------------------------------------------- backend call results
GenericError == <<"error">>

\* the command layer's error string for an input-required outcome
\* (status 10: plain input, status 11: sensitive input)
GeminiInputErrorString(status) ==
    IF status = 11
    THEN <<GEMINI_SENSITIVE_INPUT_PROMPT_PREFIX, "prompt">>
    ELSE <<GEMINI_INPUT_PROMPT_PREFIX, "prompt">>

\* the conversion prompt of fetch_url, with or without the URL after the message
ConversionErrors(url) ==
    { <<CONVERSION_PROMPT_PREFIX, "msg">>,
      <<CONVERSION_PROMPT_PREFIX, "msg", ":">> \o url }

Errors(url) ==
    {GenericError} \cup {GeminiInputErrorString(s) : s \in {10, 11}}
        \cup ConversionErrors(url)

Ok(u) == [ok |-> TRUE, url |-> u, error |-> NULL]
Err(e) == [ok |-> FALSE, url |-> NULL, error |-> e]

Results(url) == {Ok(u) : u \in ResultUrls(url)} \cup {Err(e) : e \in Errors(url)}

\* ---------------------------------------------------------- pending calls
Call(fn, url, add, input) == [fn |-> fn, url |-> url, add |-> add, input |-> input]

\* a settled call that stays in flight: it is issued again
Remove_Keep(q, k) == q

\* the call that settled is no longer in flight
Remove(q, k) == SubSeq(q, 1, k - 1) \o SubSeq(q, k + 1, Len(q))

\* calls in flight that add a history entry when they succeed
RECURSIVE NumAdding(_)
NumAdding(q) ==
    IF q = <<>> THEN 0
    ELSE (IF Head(q).add THEN 1 ELSE 0) + NumAdding(Tail(q))

\* room for one more call in flight, within the explored history length
CanStart(add) ==
    /\ Len(pending) < MaxPending
    /\ Len(history) + NumAdding(pending) + (IF add THEN 1 ELSE 0) <= MaxHist

BfNone == [phase |-> "none", h |-> <<>>, i |-> -1]

\* the round-trip observer after a backend call settles
BfSettled(ok) ==
    IF ok /\ bf.phase = "back" THEN [bf EXCEPT !.phase = "backDone"]
    ELSE IF ok /\ bf.phase = "fwd" THEN [bf EXCEPT !.phase = "done"]
    ELSE BfNone

\* ------------------------------------------------------- navigation.js
\* showLoading, then the awaited invoke
Begin(call) ==
    /\ content' = "loading"
    /\ pending' = Append(pending, call)

\* goHome up to its await
StartGoHome ==
    /\ Begin(Call("goHome", NULL, TRUE, NULL))
    /\ UNCHANGED urlBar

\* loadUrl / convertAndLoad / loadGeminiUrl up to their await
StartLoad(fn, url, addHistory) ==
    /\ Begin(Call(fn, url, addHistory, NULL))
    /\ urlBar' = url

\* loadPath: the dispatch on the kind of path, up to the await
loadPath(path, addHistory) ==
    IF path = HOME_PATH THEN StartGoHome
    ELSE IF startsWith(path, "http://") \/ startsWith(path, "https://")
         THEN StartLoad("loadUrl", path, addHistory)
    ELSE IF startsWith(path, GEMINI_SCHEME)
         THEN StartLoad("loadGeminiUrl", path, addHistory)
    ELSE StartLoad("loadPath", path, addHistory)

\* the home button, and init()
GoHome ==
    /\ CanStart(TRUE)
    /\ StartGoHome
    /\ bf' = BfNone
    /\ UNCHANGED <<history, historyIndex, currentPath, currentUrl,
                   geminiInputUrl, dialogOpen, dialogSensitive, opCount>>

\* a followed link, a typed location or a chosen file: loadPath(path)
Navigate(path) ==
    /\ CanStart(TRUE)
    /\ loadPath(path, TRUE)
    /\ bf' = BfNone
    /\ UNCHANGED <<history, historyIndex, currentPath, currentUrl,
                   geminiInputUrl, dialogOpen, dialogSensitive, opCount>>

GoBack ==
    LET r == historyBack(history, historyIndex)
    IN  /\ historyIndex' = r.historyIndex
        /\ IF r.path # NULL
           THEN /\ CanStart(FALSE)
                /\ loadPath(r.path, FALSE)
                /\ bf' = IF pending = <<>>
                         THEN [phase |-> "back", h |-> history, i |-> historyIndex]
                         ELSE BfNone
           ELSE /\ UNCHANGED <<urlBar, content, pending>>
                /\ bf' = BfNone
        /\ UNCHANGED <<history, currentPath, currentUrl,
                       geminiInputUrl, dialogOpen, dialogSensitive, opCount>>

GoForward ==
    LET r == historyForward(history, historyIndex)
    IN  /\ historyIndex' = r.historyIndex
        /\ IF r.path # NULL
           THEN /\ CanStart(FALSE)
                /\ loadPath(r.path, FALSE)
                /\ bf' = IF bf.phase = "backDone"
                         THEN [bf EXCEPT !.phase = "fwd"]
                         ELSE BfNone
           ELSE /\ UNCHANGED <<urlBar, content, pending>>
                /\ bf' = BfNone
        /\ UNCHANGED <<history, currentPath, currentUrl,
                       geminiInputUrl, dialogOpen, dialogSensitive, opCount>>

\* showError
ShowError == content' = "error"

\* the success branch shared by loadUrl, convertAndLoad, loadGeminiUrl and
\* submitGeminiInput: render, set the location, add the history entry
Loaded(url, res, addHistory) ==
    LET final == Or(res.url, url)
        a == addToHistory(history, historyIndex, final)
    IN  /\ content' = "rendered"
        /\ currentUrl' = final
        /\ urlBar' = IF res.url # NULL THEN res.url ELSE urlBar
        /\ IF addHistory
           THEN /\ history' = a.history
                /\ historyIndex' = a.historyIndex
                /\ currentPath' = a.currentPath
           ELSE /\ currentPath' = NULL
                /\ UNCHANGED <<history, historyIndex>>

\* goHome after get_welcome_content settles
CompleteGoHome(k, res) ==
    /\ pending[k].fn = "goHome"
    /\ pending' = Remove(pending, k)
    /\ bf' = BfSettled(res.ok)
    /\ IF res.ok
       THEN LET a == addToHistory(history, historyIndex, HOME_PATH)
            IN  /\ content' = "rendered"
                /\ urlBar' = NULL
                /\ currentUrl' = NULL
                /\ history' = a.history
                /\ historyIndex' = a.historyIndex
                /\ currentPath' = a.currentPath
       ELSE /\ ShowError
            /\ UNCHANGED <<history, historyIndex, currentPath, currentUrl, urlBar>>
    /\ UNCHANGED <<geminiInputUrl, dialogOpen, dialogSensitive, opCount>>

\* loadPath after open_file settles
CompleteLoadPath(k, res) ==
    LET c == pending[k]
    IN  /\ c.fn = "loadPath"
        /\ pending' = Remove(pending, k)
        /\ bf' = BfSettled(res.ok)
        /\ IF res.ok
           THEN LET a == addToHistory(history, historyIndex, c.url)
                IN  /\ content' = "rendered"
                    /\ currentUrl' = Or(res.url, NULL)
                    /\ IF c.add
                       THEN /\ history' = a.history
                            /\ historyIndex' = a.historyIndex
                            /\ currentPath' = a.currentPath
                       ELSE /\ currentPath' = c.url
                            /\ UNCHANGED <<history, historyIndex>>
           ELSE /\ ShowError
                /\ UNCHANGED <<history, historyIndex, currentPath, currentUrl>>
        /\ UNCHANGED <<urlBar, geminiInputUrl, dialogOpen, dialogSensitive, opCount>>

\* error.substring(CONVERSION_PROMPT_PREFIX.length), then the text after the
\* last ":http" of it, or the requested URL when there is none
PromptUrl(error, url) ==
    LET withoutPrefix == Tail(error)
        colons == {j \in 1..(Len(withoutPrefix) - 1) :
                      /\ withoutPrefix[j] = ":"
                      /\ withoutPrefix[j + 1] \in {"http://", "https://"}}
    IN  IF colons # {}
        THEN LET lastColon == CHOOSE j \in colons : \A m \in colons : m <= j
             IN  SubSeq(withoutPrefix, lastColon + 1, Len(withoutPrefix))
        ELSE url

\* showGeminiInputDialog(prompt, url, sensitive)
showGeminiInputDialog(url, sensitive) ==
    /\ geminiInputUrl' = url
    /\ dialogSensitive' = sensitive
    /\ dialogOpen' = TRUE

\* the catch branch with the sensitive prompt opened as a plain text dialog
GeminiFailed_PlainOnly(url, error) ==
    IF startsWith(error, GEMINI_INPUT_PROMPT_PREFIX)
           \/ startsWith(error, GEMINI_SENSITIVE_INPUT_PROMPT_PREFIX)
    THEN /\ showGeminiInputDialog(url, FALSE)
         /\ UNCHANGED content
    ELSE /\ ShowError
         /\ UNCHANGED <<geminiInputUrl, dialogOpen, dialogSensitive>>

\* the catch branch shared by loadGeminiUrl and submitGeminiInput
GeminiFailed(url, error) ==
    IF startsWith(error, GEMINI_INPUT_PROMPT_PREFIX)
    THEN /\ showGeminiInputDialog(url, FALSE)
         /\ UNCHANGED content
    ELSE IF startsWith(error, GEMINI_SENSITIVE_INPUT_PROMPT_PREFIX)
    THEN /\ showGeminiInputDialog(url, TRUE)
         /\ UNCHANGED content
    ELSE /\ ShowError
         /\ UNCHANGED <<geminiInputUrl, dialogOpen, dialogSensitive>>

\* loadUrl after fetch_url settles; accept is the user's answer to confirm()
CompleteLoadUrl(k, res, accept) ==
    LET c == pending[k]
    IN  /\ c.fn = "loadUrl"
        /\ bf' = BfSettled(res.ok)
        /\ IF res.ok
           THEN /\ Loaded(c.url, res, c.add)
                /\ pending' = Remove(pending, k)
           ELSE /\ UNCHANGED <<history, historyIndex, currentPath, currentUrl>>
                /\ IF startsWith(res.error, CONVERSION_PROMPT_PREFIX)
                   THEN IF accept
                        THEN LET promptUrl == PromptUrl(res.error, c.url)
                             IN  /\ content' = "loading"
                                 /\ urlBar' = promptUrl
                                 /\ pending' = Append(Remove(pending, k),
                                        Call("convertAndLoad", promptUrl, c.add, NULL))
                        ELSE /\ ShowError
                             /\ urlBar' = c.url
                             /\ pending' = Remove(pending, k)
                   ELSE /\ ShowError
                        /\ UNCHANGED urlBar
                        /\ pending' = Remove(pending, k)
        /\ UNCHANGED <<geminiInputUrl, dialogOpen, dialogSensitive, opCount>>

\* convertAndLoad that adds a history entry whatever addHistory says
CompleteConvertAndLoad_AlwaysAdds(k, res) ==
    LET c == pending[k]
    IN  /\ c.fn = "convertAndLoad"
        /\ pending' = Remove(pending, k)
        /\ bf' = BfSettled(res.ok)
        /\ IF res.ok
           THEN Loaded(c.url, res, TRUE)
           ELSE /\ ShowError
                /\ UNCHANGED <<history, historyIndex, currentPath, currentUrl, urlBar>>
        /\ UNCHANGED <<geminiInputUrl, dialogOpen, dialogSensitive, opCount>>

\* convertAndLoad after convert_url settles
CompleteConvertAndLoad(k, res) ==
    LET c == pending[k]
    IN  /\ c.fn = "convertAndLoad"
        /\ pending' = Remove(pending, k)
        /\ bf' = BfSettled(res.ok)
        /\ IF res.ok
           THEN Loaded(c.url, res, c.add)
           ELSE /\ ShowError
                /\ UNCHANGED <<history, historyIndex, currentPath, currentUrl, urlBar>>
        /\ UNCHANGED <<geminiInputUrl, dialogOpen, dialogSensitive, opCount>>

\* loadGeminiUrl after fetch_gemini settles
CompleteLoadGeminiUrl(k, res) ==
    LET c == pending[k]
    IN  /\ c.fn = "loadGeminiUrl"
        /\ pending' = Remove(pending, k)
        /\ bf' = BfSettled(res.ok)
        /\ IF res.ok
           THEN /\ Loaded(c.url, res, c.add)
                /\ UNCHANGED <<geminiInputUrl, dialogOpen, dialogSensitive>>
           ELSE /\ GeminiFailed(c.url, res.error)
                /\ UNCHANGED <<history, historyIndex, currentPath, currentUrl, urlBar>>
        /\ UNCHANGED opCount

\* submitGeminiInput after submit_gemini_input settles
CompleteSubmitGeminiInput(k, res) ==
    LET c == pending[k]
    IN  /\ c.fn = "submitGeminiInput"
        /\ pending' = Remove(pending, k)
        /\ bf' = BfSettled(res.ok)
        /\ IF res.ok
           THEN /\ Loaded(c.url, res, TRUE)
                /\ UNCHANGED <<geminiInputUrl, dialogOpen, dialogSensitive>>
           ELSE /\ GeminiFailed(c.url, res.error)
                /\ UNCHANGED <<history, historyIndex, currentPath, currentUrl, urlBar>>
        /\ UNCHANGED opCount

\* a close that hides the dialog and stays bound to its URL
closeGeminiInputDialog_KeepsUrl ==
    /\ dialogOpen' = FALSE
    /\ UNCHANGED geminiInputUrl

\* closeGeminiInputDialog: cancel, close, click outside, Escape
closeGeminiInputDialog ==
    /\ dialogOpen' = FALSE
    /\ geminiInputUrl' = NULL

CloseGeminiInputDialog ==
    /\ dialogOpen
    /\ closeGeminiInputDialog
    /\ bf' = BfNone
    /\ UNCHANGED <<history, historyIndex, currentPath, currentUrl, urlBar, content,
                   dialogSensitive, pending, opCount>>

\* handleGeminiInputSubmit without the test of the pending URL
HandleGeminiInputSubmit_NoUrlTest(input) ==
    /\ bf' = BfNone
    /\ CanStart(TRUE)
    /\ closeGeminiInputDialog
    /\ Begin(Call("submitGeminiInput", geminiInputUrl, TRUE, input))
    /\ UNCHANGED <<history, historyIndex, currentPath, currentUrl, urlBar,
                   dialogSensitive, opCount>>

\* handleGeminiInputSubmit: the send button or Enter, with the text typed
HandleGeminiInputSubmit(input) ==
    /\ bf' = BfNone
    /\ IF geminiInputUrl = NULL
       THEN UNCHANGED <<geminiInputUrl, dialogOpen, content, pending>>
       ELSE /\ CanStart(TRUE)
            /\ closeGeminiInputDialog
            /\ Begin(Call("submitGeminiInput", geminiInputUrl, TRUE, input))
    /\ UNCHANGED <<history, historyIndex, currentPath, currentUrl, urlBar,
                   dialogSensitive, opCount>>

\* ------------------------------------------------- the retrieval core
\* (gemini.rs, gopher.rs: Trust Store, Transport Connector, Response Reader,
\* Gemini Status Machine, Request Orchestrator)
MAX_REDIRECTS == 5
MAX_RESPONSE_SIZE == 5242880
MAX_URL_LENGTH == 1024

Tasks == {"t1", "t2"}
NoTask == "none"
Hosts == {"a.example", "b.example"}
NoHost == "nohost"
NoFp == "nofp"
Fingerprints == {"fpX", "fpY"}

\* a URL as the validators see it: scheme, host, length, private address
Urls ==
    [scheme : {"gemini", "gopher", "http"},
     host : Hosts \cup {NoHost},
     len : {SmallLen, MAX_URL_LENGTH, MAX_URL_LENGTH + 1},
     private : BOOLEAN]

\* validate_gemini_url: Ok(parsed) or InvalidUrl
validate_gemini_url(u) ==
    /\ u.scheme = "gemini"
    /\ ~(u.len > MAX_URL_LENGTH)

\* the host is mandatory: a Gemini request needs one to connect to
GeminiRequestUrl(u) == validate_gemini_url(u) /\ u.host # NoHost

\* validate_gopher_url without the length check
validate_gopher_url_NoLength(u) ==
    /\ u.scheme = "gopher"
    /\ u.host # NoHost
    /\ ~u.private

\* validate_gopher_url: Ok(GopherUrl) or InvalidUrl
validate_gopher_url(u) ==
    /\ u.scheme = "gopher"
    /\ u.host # NoHost
    /\ ~u.private
    /\ ~(u.len > 1024)

\* parse_gopher_url, as fetch calls it
parse_gopher_url(u) == validate_gopher_url(u)

ValidFor(proto, u) ==
    IF proto = "gemini" THEN GeminiRequestUrl(u) ELSE parse_gopher_url(u)

\* a trust store that takes a changed certificate for a first use
verify_TrustLatest(entry, candidate) ==
    IF entry = candidate THEN "Match" ELSE "FirstUse"

\* the trust store's verdict on a presented fingerprint, given the entry seen
verify(entry, candidate) ==
    IF entry = NoFp THEN "FirstUse"
    ELSE IF entry = candidate THEN "Match"
    ELSE "Mismatch"

\* a store that records whenever a verification completes
Records_Always(verdict) == TRUE

\* only a first use is recorded
Records(verdict) == verdict = "FirstUse"

\* a connection that goes on whatever the verdict
Proceeds_Always(verdict) == TRUE

\* the connection goes on after FirstUse and Match, and is aborted on Mismatch
Proceeds(verdict) == verdict # "Mismatch"

\* a store without mutual exclusion
CanLock_NoMutex == TRUE

\* the mutex of the store: one verification at a time
CanLock == lock = NoTask

\* a status machine that knows the codes the protocol names, one by one
Category_ExactCodes(status) ==
    IF status \in {10, 11} THEN "Input"
    ELSE IF status = 20 THEN "Success"
    ELSE IF status \in {30, 31} THEN "Redirect"
    ELSE IF status \in {40, 41, 42, 43, 44} THEN "TemporaryFailure"
    ELSE IF status \in {50, 51, 52, 53, 59} THEN "PermanentFailure"
    ELSE "CertRequired"

\* the outcome category of a Gemini status code: its first digit
Category(status) ==
    LET d == status \div 10
    IN  IF d = 1 THEN "Input"
        ELSE IF d = 2 THEN "Success"
        ELSE IF d = 3 THEN "Redirect"
        ELSE IF d = 4 THEN "TemporaryFailure"
        ELSE IF d = 5 THEN "PermanentFailure"
        ELSE "CertRequired"

\* status codes a server may answer with, some of every category
Statuses == {10, 11, 20, 30, 31, 44, 51, 60}

\* a hop limit that lets one redirect too many through
HopLimitReached_OffByOne(hops) == hops > MAX_REDIRECTS

\* a redirect is followed while fewer than MAX_REDIRECTS have been
HopLimitReached(hops) == hops >= MAX_REDIRECTS

\* the reader gives up once this many bytes have been read
CeilingReached(n) == n >= MAX_RESPONSE_SIZE

ResponseLengths == {SmallLen, MAX_RESPONSE_SIZE, MAX_RESPONSE_SIZE + 1}
ChunkSizes == {MAX_RESPONSE_SIZE \div 2, MAX_RESPONSE_SIZE}

Min(a, b) == IF a < b THEN a ELSE b

\* a read that is not cut at the ceiling
ChunkLen_Uncapped(c, read, len) == Min(c, len - read)

\* the bytes one read returns: at most c, what is left of the stream, and
\* what is left to the ceiling
ChunkLen(c, read, len) == Min(c, Min(len - read, MAX_RESPONSE_SIZE - read))

\* meta of a response that is no redirect
Urls_None == [scheme |-> "none", host |-> NoHost, len |-> 0, private |-> FALSE]

IdleTask ==
    [pc |-> "idle", proto |-> "none", host |-> NoHost, valid |-> TRUE, hops |-> 0,
     fp |-> NoFp, seen |-> NoFp, verdict |-> "none",
     sent |-> FALSE, respLen |-> 0, bytesRead |-> 0, parsed |-> FALSE,
     conns |-> 0, requests |-> 0, outcome |-> "none"]

\* the retrieval core at start: an empty trust store, no fetch running;
\* fetches fetches are still to be asked for and redirects redirect
\* responses still to be served
FetchInit(fetches, redirects) ==
    /\ known = [h \in Hosts |-> NoFp]
    /\ lock = NoTask
    /\ task = [t \in Tasks |-> IdleTask]
    /\ budget = [fetches |-> fetches, redirects |-> redirects]
    /\ first = [h \in Hosts |-> NoFp]
    /\ firstUses = [h \in Hosts |-> 0]

FetchIdle == FetchInit(0, 0)

\* no pure function under study
NoRet == <<"none">>
PureIdle == arg = NoRet /\ ret = NoRet

\* the fetch ends: the connection is closed, the buffer and the locals dropped
Finish(t, outcome) ==
    task' = [task EXCEPT ![t].pc = "done", ![t].outcome = outcome,
                         ![t].host = NoHost, ![t].hops = 0,
                         ![t].fp = NoFp, ![t].seen = NoFp,
                         ![t].respLen = 0, ![t].bytesRead = 0]

\* --------------------------------------------------- the navigation model
FrontInit ==
    /\ BookmarkIdle
    /\ btnBackDisabled = TRUE
    /\ btnForwardDisabled = TRUE
    /\ bookmarksPanelHidden = TRUE
    /\ settingsPanelHidden = TRUE
    /\ history = <<>>
    /\ historyIndex = -1
    /\ currentPath = NULL
    /\ currentUrl = NULL
    /\ urlBar = NULL
    /\ content = "blank"
    /\ geminiInputUrl = NULL
    /\ dialogOpen = FALSE
    /\ dialogSensitive = FALSE
    /\ pending = <<>>
    /\ bf = BfNone
    /\ opCount = 0

Init == FrontInit /\ FetchIdle /\ PureIdle

Settle ==
    \E k \in 1..Len(pending) : \E res \in Results(pending[k].url) :
        \/ CompleteGoHome(k, res)
        \/ CompleteLoadPath(k, res)
        \/ \E accept \in BOOLEAN : CompleteLoadUrl(k, res, accept)
        \/ CompleteConvertAndLoad(k, res)
        \/ CompleteLoadGeminiUrl(k, res)
        \/ CompleteSubmitGeminiInput(k, res)

Next ==
    /\ \/ GoHome
       \/ \E path \in Requests : Navigate(path)
       \/ GoBack
       \/ GoForward
       \/ Settle
       \/ CloseGeminiInputDialog
       \/ \E input \in InputTexts : HandleGeminiInputSubmit(input)
    /\ UNCHANGED <<fetchVars, pureVars, panelVars, buttonVars, bookmarkVars>>

Spec == Init /\ [][Next]_vars

\* ------------------------------------------------ the history-only model
\* state.js's history operations applied to a history that is full or close
\* to full, as left by earlier navigation
Pattern == <<HOME_PATH, HttpA, GemA, FileA>>

Visited(n) == [j \in 1..n |-> Pattern[((j - 1) % Len(Pattern)) + 1]]

InitHist ==
    /\ \E n \in (MAX_HISTORY_SIZE - HistSlack)..MAX_HISTORY_SIZE :
          /\ history = Visited(n)
          /\ historyIndex \in 0..(n - 1)
    /\ currentPath = At(history, historyIndex)
    /\ currentUrl = NULL
    /\ urlBar = NULL
    /\ content = "rendered"
    /\ geminiInputUrl = NULL
    /\ dialogOpen = FALSE
    /\ dialogSensitive = FALSE
    /\ pending = <<>>
    /\ bf = BfNone
    /\ opCount = 0
    /\ FetchIdle
    /\ PureIdle
    /\ BookmarkIdle
    /\ btnBackDisabled = TRUE
    /\ btnForwardDisabled = TRUE
    /\ bookmarksPanelHidden = TRUE
    /\ settingsPanelHidden = TRUE

AddToHistoryOp(path) ==
    LET a == addToHistory(history, historyIndex, path)
    IN  /\ opCount < MaxOps
        /\ opCount' = opCount + 1
        /\ history' = a.history
        /\ historyIndex' = a.historyIndex
        /\ currentPath' = a.currentPath
        /\ UNCHANGED <<currentUrl, urlBar, content, geminiInputUrl, dialogOpen,
                       dialogSensitive, pending, bf>>

HistoryBackOp ==
    /\ opCount < MaxOps
    /\ opCount' = opCount + 1
    /\ historyIndex' = historyBack(history, historyIndex).historyIndex
    /\ UNCHANGED <<history, currentPath, currentUrl, urlBar, content, geminiInputUrl,
                   dialogOpen, dialogSensitive, pending, bf>>

HistoryForwardOp ==
    /\ opCount < MaxOps
    /\ opCount' = opCount + 1
    /\ historyIndex' = historyForward(history, historyIndex).historyIndex
    /\ UNCHANGED <<history, currentPath, currentUrl, urlBar, content, geminiInputUrl,
                   dialogOpen, dialogSensitive, pending, bf>>

NextHist ==
    /\ \/ \E path \in Requests \cup {HOME_PATH} : AddToHistoryOp(path)
       \/ HistoryBackOp
       \/ HistoryForwardOp
    /\ UNCHANGED <<fetchVars, pureVars, panelVars, buttonVars, bookmarkVars>>

SpecHist == InitHist /\ [][NextHist]_vars

\* ------------------------------------------------------ the fetch model
\* fetch_gemini(url) / fetch_gopher(url): validation, before any I/O
FetchStart(t, proto, u) ==
    /\ task[t].pc = "idle"
    /\ budget.fetches > 0
    /\ budget' = [budget EXCEPT !.fetches = @ - 1]
    /\ IF ValidFor(proto, u)
       THEN task' = [task EXCEPT ![t].pc = "connect", ![t].proto = proto,
                                 ![t].host = u.host, ![t].valid = TRUE]
       ELSE task' = [task EXCEPT ![t].pc = "done", ![t].proto = proto,
                                 ![t].valid = FALSE, ![t].outcome = "InvalidUrl"]
    /\ UNCHANGED <<known, lock, first, firstUses>>

\* the TCP connection to (host, port) is opened, or fails to open
Connect(t, ok) ==
    /\ task[t].pc = "connect"
    /\ IF ok
       THEN task' = [task EXCEPT
                ![t].pc = IF task[t].proto = "gemini" THEN "handshake" ELSE "send",
                ![t].conns = @ + 1, ![t].sent = FALSE, ![t].verdict = "none",
                ![t].parsed = FALSE, ![t].respLen = 0]
       ELSE task' = [task EXCEPT ![t].pc = "done", ![t].conns = @ + 1,
                                 ![t].host = NoHost, ![t].hops = 0,
                                 ![t].outcome = "DnsOrConnectFailure"]
    /\ UNCHANGED <<known, lock, budget, first, firstUses>>

\* the handshake reaches the verifier: the store is locked and the entry of
\* (host, port) looked up for the fingerprint of the presented certificate
BeginVerify(t, candidate) ==
    /\ task[t].pc = "handshake"
    /\ CanLock
    /\ lock' = t
    /\ task' = [task EXCEPT ![t].pc = "verify", ![t].fp = candidate,
                            ![t].seen = known[task[t].host]]
    /\ UNCHANGED <<known, budget, first, firstUses>>

\* the handshake fails for a reason other than the trust decision
HandshakeFail(t) ==
    /\ task[t].pc = "handshake"
    /\ Finish(t, "TlsError")
    /\ UNCHANGED <<known, lock, budget, first, firstUses>>

\* the verdict: recorded on first use, then the store is unlocked; a mismatch
\* aborts the connection
Decide(t) ==
    LET h == task[t].host
        v == verify(task[t].seen, task[t].fp)
    IN  /\ task[t].pc = "verify"
        /\ lock' = NoTask
        /\ known' = IF Records(v) THEN [known EXCEPT ![h] = task[t].fp] ELSE known
        /\ first' = IF Records(v) /\ first[h] = NoFp
                    THEN [first EXCEPT ![h] = task[t].fp] ELSE first
        /\ firstUses' = IF v = "FirstUse"
                        THEN [firstUses EXCEPT ![h] = @ + 1] ELSE firstUses
        /\ IF ~Proceeds(v)
           THEN task' = [task EXCEPT ![t].pc = "done", ![t].verdict = v,
                                     ![t].fp = NoFp, ![t].seen = NoFp,
                                     ![t].host = NoHost, ![t].hops = 0,
                                     ![t].outcome = "CertificateMismatch"]
           ELSE task' = [task EXCEPT ![t].pc = "send", ![t].verdict = v,
                                     ![t].fp = NoFp, ![t].seen = NoFp]
        /\ UNCHANGED budget

\* the request line (Gemini: the URL, Gopher: the selector) is written; the
\* server's response is len bytes long
Send(t, len) ==
    /\ task[t].pc = "send"
    /\ task' = [task EXCEPT ![t].pc = "read", ![t].sent = TRUE,
                            ![t].requests = @ + 1, ![t].respLen = len,
                            ![t].bytesRead = 0]
    /\ UNCHANGED <<known, lock, budget, first, firstUses>>

\* the reader: one more chunk; when the ceiling is reached with it, the read
\* is aborted and the fetch ends
ReadChunk(t, c) ==
    LET r == task[t]
        n == r.bytesRead + ChunkLen(c, r.bytesRead, r.respLen)
    IN  /\ r.pc = "read"
        /\ r.bytesRead < r.respLen
        /\ IF CeilingReached(n)
           THEN task' = [task EXCEPT ![t].pc = "done", ![t].bytesRead = n,
                                     ![t].outcome = "OversizedResponse",
                                     ![t].host = NoHost, ![t].hops = 0]
           ELSE task' = [task EXCEPT ![t].bytesRead = n]
        /\ UNCHANGED <<known, lock, budget, first, firstUses>>

\* the reader: end of the stream; a Gopher response goes to its parser and
\* converter, a Gemini response to the status machine
ReadEof(t) ==
    LET r == task[t]
    IN  /\ r.pc = "read"
        /\ r.bytesRead = r.respLen
        /\ IF r.proto = "gemini"
           THEN task' = [task EXCEPT ![t].pc = "classify"]
           ELSE task' = [task EXCEPT ![t].pc = "done", ![t].parsed = TRUE,
                                     ![t].outcome = "Success", ![t].host = NoHost,
                                     ![t].respLen = 0, ![t].bytesRead = 0]
        /\ UNCHANGED <<known, lock, budget, first, firstUses>>

\* the URLs a response header of this status may name in meta
Targets(status) == IF Category(status) = "Redirect" THEN Urls ELSE {Urls_None}

\* the Gemini status machine on the response header <status> <meta>; target
\* is the URL of meta when the status is a redirect
Classify(t, status, target) ==
    LET r == task[t]
        cat == Category(status)
    IN  /\ r.pc = "classify"
        /\ IF cat = "Redirect"
           THEN /\ budget.redirects > 0
                /\ budget' = [budget EXCEPT !.redirects = @ - 1]
           ELSE UNCHANGED budget
        /\ IF cat = "Redirect" /\ ~HopLimitReached(r.hops)
                /\ target.scheme = "gemini" /\ GeminiRequestUrl(target)
           THEN task' = [task EXCEPT ![t].pc = "connect", ![t].parsed = TRUE,
                                     ![t].hops = @ + 1, ![t].host = target.host,
                                     ![t].respLen = 0, ![t].bytesRead = 0]
           ELSE task' = [task EXCEPT ![t].pc = "done", ![t].parsed = TRUE,
                    ![t].host = NoHost, ![t].hops = 0,
                    ![t].respLen = 0, ![t].bytesRead = 0,
                    ![t].outcome =
                        IF cat = "Input" THEN "InputRequired"
                        ELSE IF cat = "Success" THEN "Success"
                        ELSE IF cat = "Redirect"
                        THEN (IF HopLimitReached(r.hops) THEN "RedirectLoop"
                              ELSE IF target.scheme # "gemini"
                              THEN "CrossProtocolRedirect"
                              ELSE "InvalidUrl")
                        ELSE "ProtocolStatusError"]
        /\ UNCHANGED <<known, lock, first, firstUses>>

\* where a fetch is suspended on the network
Suspended(t) == task[t].pc \in {"connect", "handshake", "send", "read"}

\* the deadline of the fetch passes
Timeout(t) ==
    /\ Suspended(t)
    /\ Finish(t, "Timeout")
    /\ UNCHANGED <<known, lock, budget, first, firstUses>>

\* the caller abandons the fetch
Cancel(t) ==
    /\ Suspended(t)
    /\ Finish(t, "Cancelled")
    /\ UNCHANGED <<known, lock, budget, first, firstUses>>

\* every step of a running fetch
TaskStep(t) ==
    /\ \/ \E ok \in BOOLEAN : Connect(t, ok)
       \/ \E candidate \in Fingerprints : BeginVerify(t, candidate)
       \/ HandshakeFail(t)
       \/ Decide(t)
       \/ \E len \in ResponseLengths : Send(t, len)
       \/ \E c \in ChunkSizes : ReadChunk(t, c)
       \/ ReadEof(t)
       \/ \E status \in Statuses : \E target \in Targets(status) :
              Classify(t, status, target)
       \/ Timeout(t)
       \/ Cancel(t)
    /\ UNCHANGED <<frontVars, pureVars, panelVars, buttonVars, bookmarkVars>>

NextFetch ==
    \E t \in Tasks :
        \/ /\ \E proto \in {"gemini", "gopher"} : \E u \in Urls : FetchStart(t, proto, u)
           /\ UNCHANGED <<frontVars, pureVars, panelVars, buttonVars, bookmarkVars>>
        \/ TaskStep(t)

\* one fetch, with redirect responses enough to pass the hop limit
InitFetch == FrontInit /\ FetchInit(1, MAX_REDIRECTS + MaxExtraRedirects) /\ PureIdle

SpecFetch == InitFetch /\ [][NextFetch]_vars

\* the deadline of a fetch and the scheduler let every running fetch go on
SpecFetchFair == SpecFetch /\ \A t \in Tasks : WF_vars(TaskStep(t))

\* two fetches at once, with few redirect responses
InitRace == FrontInit /\ FetchInit(2, MaxRaceRedirects) /\ PureIdle

SpecRace == InitRace /\ [][NextFetch]_vars

\* --------------------------------------------- the dispatch of a location
GopherA == <<"gopher://", "a">>
FileUrlA == <<"file://", "/", "a.md">>
BareA == <<"a.example">>
RelA == <<"b.md">>

\* what can be typed in the URL bar (trimmed), and the href of a link
TypedInputs == {NULL, HttpA, GemA, GopherA, FileA, FileUrlA, BareA}
Hrefs == {HttpA, GemA, GopherA, FileUrlA, RelA}

\* the backend command each function invokes
Command(fn) ==
    IF fn = "goHome" THEN "get_welcome_content"
    ELSE IF fn = "loadPath" THEN "open_file"
    ELSE IF fn = "loadUrl" THEN "fetch_url"
    ELSE IF fn = "convertAndLoad" THEN "convert_url"
    ELSE IF fn = "loadGeminiUrl" THEN "fetch_gemini"
    ELSE IF fn = "submitGeminiInput" THEN "submit_gemini_input"
    ELSE fn

\* href.replace('file://', '')
StripFileScheme(s) == Tail(s)

\* handleUrlSubmit
HandleUrlSubmit(input) ==
    /\ CanStart(TRUE)
    /\ bf' = BfNone
    /\ IF input = NULL THEN StartGoHome
       ELSE IF startsWith(input, "http://") \/ startsWith(input, "https://")
            THEN StartLoad("loadUrl", input, TRUE)
       ELSE IF startsWith(input, GEMINI_SCHEME)
            THEN StartLoad("loadGeminiUrl", input, TRUE)
       ELSE IF startsWith(input, "/") THEN loadPath(input, TRUE)
       ELSE IF startsWith(input, "file://")
            THEN loadPath(StripFileScheme(input), TRUE)
       ELSE StartLoad("loadUrl", <<"https://">> \o input, TRUE)
    /\ UNCHANGED <<history, historyIndex, currentPath, currentUrl,
                   geminiInputUrl, dialogOpen, dialogSensitive, opCount>>

\* currentPath.substring(0, currentPath.lastIndexOf(/[\\/]/) + 1): lastIndexOf
\* takes the pattern as the string "/[\\/]/", finds none, and the base is ""
BasePath(path) == <<>>

\* resolveAndNavigate up to its first await
FollowLink(href) ==
    /\ CanStart(TRUE)
    /\ bf' = BfNone
    /\ IF startsWith(href, "http://") \/ startsWith(href, "https://")
       THEN StartLoad("loadUrl", href, TRUE)
       ELSE IF startsWith(href, GEMINI_SCHEME)
       THEN StartLoad("loadGeminiUrl", href, TRUE)
       ELSE IF startsWith(href, "file://")
       THEN loadPath(StripFileScheme(href), TRUE)
       ELSE IF currentUrl # NULL
       THEN /\ pending' = Append(pending,
                   Call(IF startsWith(currentUrl, GEMINI_SCHEME)
                        THEN "resolve_gemini_url" ELSE "resolve_url",
                        href, TRUE, currentUrl))
            /\ UNCHANGED <<content, urlBar>>
       ELSE IF currentPath # NULL
       THEN loadPath(BasePath(currentPath) \o href, TRUE)
       ELSE /\ ShowError
            /\ UNCHANGED <<pending, urlBar>>
    /\ UNCHANGED <<history, historyIndex, currentPath, currentUrl,
                   geminiInputUrl, dialogOpen, dialogSensitive, opCount>>

\* what resolve_url / resolve_gemini_url may answer for a link
ResolveResults(href) ==
    {Ok(href), Ok(HttpB), Ok(GemB), Ok(FileUrlA), Err(GenericError)}

\* resolveAndNavigate after the resolver settles: the load of the resolved URL
ResolveSettled(k, res) ==
    LET c == pending[k]
        path == IF startsWith(res.url, "file://")
                THEN StripFileScheme(res.url) ELSE res.url
        fn == IF startsWith(res.url, "file://") THEN "loadPath"
              ELSE IF startsWith(res.url, GEMINI_SCHEME) THEN "loadGeminiUrl"
              ELSE "loadUrl"
    IN  /\ c.fn \in {"resolve_url", "resolve_gemini_url"}
        /\ bf' = BfNone
        /\ IF res.ok
           THEN /\ content' = "loading"
                /\ urlBar' = path
                /\ pending' = Append(Remove(pending, k), Call(fn, path, TRUE, NULL))
           ELSE /\ ShowError
                /\ pending' = Remove(pending, k)
                /\ UNCHANGED urlBar
        /\ UNCHANGED <<history, historyIndex, currentPath, currentUrl,
                       geminiInputUrl, dialogOpen, dialogSensitive, opCount>>

NextDispatch ==
    /\ \/ \E input \in TypedInputs : HandleUrlSubmit(input)
       \/ \E href \in Hrefs : FollowLink(href)
       \/ \E k \in 1..Len(pending) : \E res \in ResolveResults(pending[k].url) :
              ResolveSettled(k, res)
       \/ Settle
       \/ CloseGeminiInputDialog
       \/ \E input \in InputTexts : HandleGeminiInputSubmit(input)
    /\ UNCHANGED <<fetchVars, pureVars, panelVars, buttonVars, bookmarkVars>>

SpecDispatch == Init /\ [][NextDispatch]_vars

\* --------------------------------------------------------- the side panels
\* closeAllPanels
closeAllPanels ==
    /\ bookmarksPanelHidden' = TRUE
    /\ settingsPanelHidden' = TRUE

\* toggleBookmarksPanelUI
toggleBookmarksPanelUI ==
    LET isVisible == ~bookmarksPanelHidden
    IN  /\ bookmarksPanelHidden' = isVisible
        /\ settingsPanelHidden' = TRUE

\* a toggle of the settings panel that leaves the other panel alone
toggleSettingsPanelUI_KeepsOther ==
    LET isVisible == ~settingsPanelHidden
    IN  /\ settingsPanelHidden' = isVisible
        /\ UNCHANGED bookmarksPanelHidden

\* toggleSettingsPanelUI
toggleSettingsPanelUI ==
    LET isVisible == ~settingsPanelHidden
    IN  /\ settingsPanelHidden' = isVisible
        /\ bookmarksPanelHidden' = TRUE

\* closeBookmarksPanel
closeBookmarksPanel ==
    /\ bookmarksPanelHidden' = TRUE
    /\ UNCHANGED settingsPanelHidden

\* closeSettingsPanel
closeSettingsPanel ==
    /\ settingsPanelHidden' = TRUE
    /\ UNCHANGED bookmarksPanelHidden

\* the bookmarks button, Ctrl+B
ToggleBookmarksPanel == toggleBookmarksPanelUI /\ UNCHANGED frontVars

\* the settings button
ToggleSettingsPanel == toggleSettingsPanelUI /\ UNCHANGED frontVars

\* the close button of the bookmarks panel
CloseBookmarksPanel == closeBookmarksPanel /\ UNCHANGED frontVars

\* the close button of the settings panel
CloseSettingsPanel == closeSettingsPanel /\ UNCHANGED frontVars

\* the Escape key: panels and dialogs are closed
Escape ==
    /\ closeAllPanels
    /\ closeGeminiInputDialog
    /\ bf' = BfNone
    /\ UNCHANGED <<history, historyIndex, currentPath, currentUrl, urlBar, content,
                   dialogSensitive, pending, opCount>>

\* the URLs of the bookmarks in the list
BookmarkUrls == {HttpA, FileA, FileUrlA, GemA}

\* navigateToBookmark: a click on a bookmark of the open panel
NavigateToBookmark(url) ==
    /\ ~bookmarksPanelHidden
    /\ closeBookmarksPanel
    /\ CanStart(TRUE)
    /\ bf' = BfNone
    /\ IF startsWith(url, "file://") THEN loadPath(StripFileScheme(url), TRUE)
       ELSE IF startsWith(url, "http://") \/ startsWith(url, "https://")
            THEN StartLoad("loadUrl", url, TRUE)
       ELSE loadPath(url, TRUE)
    /\ UNCHANGED <<history, historyIndex, currentPath, currentUrl,
                   geminiInputUrl, dialogOpen, dialogSensitive, opCount>>

NextPanels ==
    /\ \/ ToggleBookmarksPanel
       \/ ToggleSettingsPanel
       \/ CloseBookmarksPanel
       \/ CloseSettingsPanel
       \/ Escape
       \/ \E url \in BookmarkUrls : NavigateToBookmark(url)
       \/ Settle /\ UNCHANGED panelVars
    /\ UNCHANGED <<fetchVars, pureVars, buttonVars, bookmarkVars>>

SpecPanels == Init /\ [][NextPanels]_vars

\* ------------------------------------------------- the status machine alone
\* every status code a response header can carry
AllStatuses == 10..69

NoBody == <<>>
SomeBody == <<"body">>

\* GeminiStatus {code, meta, body}: the body is there for 2x only
GeminiStatus(code, bytes) ==
    [code |-> code,
     category |-> Category(code),
     body |-> IF Category(code) = "Success" THEN bytes ELSE NoBody]

\* two response headers, each followed by bytes on the wire
InitStatus ==
    /\ FrontInit
    /\ FetchIdle
    /\ arg \in AllStatuses \X AllStatuses
    /\ ret = NoRet

\* the headers are read
ReadHeaders ==
    /\ ret = NoRet
    /\ ret' = <<GeminiStatus(arg[1], SomeBody), GeminiStatus(arg[2], SomeBody)>>
    /\ UNCHANGED <<arg, frontVars, fetchVars, panelVars, buttonVars, bookmarkVars>>

NextStatus == ReadHeaders

SpecStatus == InitStatus /\ [][NextStatus]_vars

\* ------------------------------------------- gophermap.rs: to_markdown
\* A string is the sequence of its pieces; an empty piece adds nothing. The
\* emoji of a line stands as a word in brackets.
Text(str) == IF str = "" THEN <<>> ELSE <<str>>

\* GopherItemType as <<name>>, and <<"Unknown", char>>
LinkTypes == {"Directory", "TextFile", "Search", "Html", "Gif", "Image"}

\* the type character of an item type
TypeChar(item_type) ==
    LET t == item_type[1]
    IN  IF t = "TextFile" THEN "0"
        ELSE IF t = "Directory" THEN "1"
        ELSE IF t = "Error" THEN "3"
        ELSE IF t = "Search" THEN "7"
        ELSE IF t = "Binary" THEN "9"
        ELSE IF t = "Gif" THEN "g"
        ELSE IF t = "Image" THEN "I"
        ELSE IF t = "Html" THEN "h"
        ELSE IF t = "Info" THEN "i"
        ELSE item_type[2]

\* item_type.description(): the name of the type
description(item_type) ==
    IF item_type[1] = "Unknown" THEN "Unknown type " \o item_type[2] ELSE item_type[1]

GopherItem(item_type, display, selector, host, port) ==
    [item_type |-> item_type, display |-> display, selector |-> selector,
     host |-> host, port |-> port]

\* gopher://host:port/<type><selector>
build_gopher_url(item) ==
    <<"gopher://", item.host, ":", ToString(item.port), "/", TypeChar(item.item_type)>>
        \o item.selector

convert_info_line(item) == Text(item.display)

Link(emoji, item, url) == <<emoji, "[">> \o Text(item.display) \o <<"](">> \o url \o <<")">>

convert_directory(item) == Link("(folder) ", item, build_gopher_url(item))

convert_text_file(item) == Link("(page) ", item, build_gopher_url(item))

convert_search(item) == Link("(search) ", item, build_gopher_url(item))

convert_html_link(item) ==
    LET url == IF startsWith(item.selector, "URL:")
               THEN Tail(item.selector) ELSE item.selector
    IN  Link("(globe) ", item, url)

\* one arm of the match of to_markdown: whether it pushes a blank line after
\* info lines, and the line it yields
Arm(item) ==
    LET t == item.item_type[1]
    IN  IF t = "Info" THEN [blank |-> FALSE, line |-> convert_info_line(item)]
        ELSE IF t = "Directory" THEN [blank |-> TRUE, line |-> convert_directory(item)]
        ELSE IF t = "TextFile" THEN [blank |-> TRUE, line |-> convert_text_file(item)]
        ELSE IF t = "Search" THEN [blank |-> TRUE, line |-> convert_search(item)]
        ELSE IF t = "Html" THEN [blank |-> TRUE, line |-> convert_html_link(item)]
        ELSE IF t = "Error"
             THEN [blank |-> FALSE, line |-> <<"(warning) ">> \o Text(item.display)]
        ELSE IF t \in {"Gif", "Image"}
             THEN [blank |-> TRUE,
                   line |-> Link("(picture) ", item, build_gopher_url(item))]
        ELSE [blank |-> FALSE,
              line |-> <<"  ">> \o Text(item.display)
                           \o <<" *(", description(item.item_type), ")*">>]

\* the loop of to_markdown: output is the lines pushed so far
RECURSIVE to_markdown_loop(_, _, _)
to_markdown_loop(items, prev_was_info, output) ==
    IF items = <<>> THEN output
    ELSE LET item == Head(items)
             a == Arm(item)
             out == IF a.blank /\ prev_was_info THEN Append(output, <<>>) ELSE output
         IN  to_markdown_loop(Tail(items), item.item_type[1] = "Info",
                              Append(out, a.line))

\* a converter that leaves out the items it has no link or text for
to_markdown_DropsUnmapped(items) ==
    to_markdown_loop(
        SelectSeq(items, LAMBDA it : it.item_type[1] \in LinkTypes \cup {"Info", "Error"}),
        FALSE, <<>>)

to_markdown(items) == to_markdown_loop(items, FALSE, <<>>)

MaxItems == 3

\* the items of a menu
ItemPool ==
    { GopherItem(<<"Info">>, "Welcome", <<"fake">>, "(NULL)", 0),
      GopherItem(<<"Info">>, "", <<"fake">>, "(NULL)", 0),
      GopherItem(<<"Directory">>, "Docs", <<"/docs">>, "example.com", 70),
      GopherItem(<<"TextFile">>, "README", <<"/readme.txt">>, "example.com", 70),
      GopherItem(<<"Search">>, "Search", <<"/search">>, "example.com", 70),
      GopherItem(<<"Html">>, "Google", <<"URL:", "https://google.com">>, "example.com", 70),
      GopherItem(<<"Html">>, "Page", <<"/page.html">>, "example.com", 70),
      GopherItem(<<"Error">>, "Not found", <<>>, "", 0),
      GopherItem(<<"Image">>, "Pic", <<"/pic.jpg">>, "example.com", 7070),
      GopherItem(<<"Binary">>, "Archive", <<"/a.zip">>, "example.com", 70),
      GopherItem(<<"Unknown", "x">>, "Odd", <<"/odd">>, "example.com", 70) }

Menus == UNION {[1..n -> ItemPool] : n \in 0..MaxItems}

InitMarkdown ==
    /\ FrontInit
    /\ FetchIdle
    /\ arg \in Menus
    /\ ret = NoRet

Convert ==
    /\ ret = NoRet
    /\ ret' = to_markdown(arg)
    /\ UNCHANGED <<arg, frontVars, fetchVars, panelVars, buttonVars, bookmarkVars>>

NextMarkdown == Convert

SpecMarkdown == InitMarkdown /\ [][NextMarkdown]_vars

\* ------------------------------------------------- gopher.rs: parse_menu
\* A response is the sequence of its lines, a line the sequence of its type
\* character and its tab-separated fields: <<type, display, selector, host,
\* port>>. A blank line is <<>>, the terminator <<".">>.
from_char(c) ==
    IF c = "0" THEN <<"TextFile">>
    ELSE IF c = "1" THEN <<"Directory">>
    ELSE IF c = "3" THEN <<"Error">>
    ELSE IF c = "7" THEN <<"Search">>
    ELSE IF c = "9" THEN <<"Binary">>
    ELSE IF c = "g" THEN <<"Gif">>
    ELSE IF c = "I" THEN <<"Image">>
    ELSE IF c = "h" THEN <<"Html">>
    ELSE IF c = "i" THEN <<"Info">>
    ELSE <<"Unknown", c>>

\* the port field as a number
ParsePort(str) ==
    IF str = "70" THEN 70 ELSE IF str = "7070" THEN 7070 ELSE 0

FieldCount == 5

\* Ok(item) as <<item>>, Err as <<>>
parse_menu_line(line) ==
    IF Len(line) # FieldCount THEN <<>>
    ELSE <<GopherItem(from_char(line[1]), line[2], Text(line[3]), line[4],
                      ParsePort(line[5]))>>

RECURSIVE parse_menu_loop(_, _)
parse_menu_loop(lines, items) ==
    IF lines = <<>> THEN items
    ELSE LET line == Head(lines)
         IN  IF line = <<>> \/ line = <<".">>
             THEN parse_menu_loop(Tail(lines), items)
             ELSE parse_menu_loop(Tail(lines), items \o parse_menu_line(line))

\* a parser to which one bad line is fatal
parse_menu_FailsOnBadLine(response) ==
    IF \E i \in 1..Len(response) : Len(response[i]) \notin {0, 1, FieldCount}
    THEN <<"Err", "MalformedMenu">> ELSE <<"Ok", parse_menu_loop(response, <<>>)>>

\* Result<Vec<GopherItem>, GopherError> as <<"Ok", items>> or <<"Err", error>>
parse_menu(response) == <<"Ok", parse_menu_loop(response, <<>>)>>

MaxLines == 3

LinePool ==
    { <<>>,
      <<".">>,
      <<"i", "Hello", "fake", "(NULL)", "0">>,
      <<"i", "World", "fake", "(NULL)", "0">>,
      <<"1", "Documents", "/docs", "example.com", "70">>,
      <<"h", "Google", "URL:https://google.com", "example.com", "70">>,
      <<"x", "Odd", "/odd", "example.com", "7070">>,
      <<"1", "Broken">>,
      <<"0", "Short", "/short", "example.com">> }

Responses == UNION {[1..n -> LinePool] : n \in 0..MaxLines}

InitMenu ==
    /\ FrontInit
    /\ FetchIdle
    /\ arg \in Responses
    /\ ret = NoRet

ParseMenu ==
    /\ ret = NoRet
    /\ ret' = parse_menu(arg)
    /\ UNCHANGED <<arg, frontVars, fetchVars, panelVars, buttonVars, bookmarkVars>>

NextMenu == ParseMenu

SpecMenu == InitMenu /\ [][NextMenu]_vars

\* ------------------------------------------- gemtext.rs: gemtext_to_markdown
\* The input is the sequence of its lines; a line is the sequence of its
\* pieces, the first piece being its marker where it has one. The three
\* grave accents of a toggle line stand as "(fence)".
IsToggle(line) == line # <<>> /\ line[1] = "(fence)"

IsLink(line) == line # <<>> /\ line[1] = "=> "

IsListItem(line) == line # <<>> /\ line[1] = "* "

\* => url text  gives  [text](url); with no text, the url is the text
convert_link(line) ==
    LET url == line[2]
        text == IF Len(line) >= 4 THEN line[4] ELSE url
    IN  <<"[", text, "](", url, ")">>

\* * item  gives  - item
convert_list_item(line) == <<"- ">> \o Tail(line)

\* headings, blockquotes and text pass through
convert_line(line) ==
    IF IsLink(line) THEN convert_link(line)
    ELSE IF IsListItem(line) THEN convert_list_item(line)
    ELSE line

RECURSIVE gemtext_loop(_, _, _)
gemtext_loop(lines, in_preformatted, output) ==
    IF lines = <<>> THEN output
    ELSE LET line == Head(lines)
         IN  IF IsToggle(line)
             THEN gemtext_loop(Tail(lines), ~in_preformatted, Append(output, line))
             ELSE IF in_preformatted
             THEN gemtext_loop(Tail(lines), TRUE, Append(output, line))
             ELSE gemtext_loop(Tail(lines), FALSE, Append(output, convert_line(line)))

\* a converter that converts every line, whatever the mode
gemtext_to_markdown_NoMode(input) ==
    <<"GemtextResult", [i \in 1..Len(input) |-> convert_line(input[i])]>>

gemtext_to_markdown(input) == <<"GemtextResult", gemtext_loop(input, FALSE, <<>>)>>

MaxGemLines == 4

GemLinePool ==
    { <<"=> ", "gemini://example.com/page", " ", "Example">>,
      <<"=> ", "gemini://example.com/x">>,
      <<"* ", "Item">>,
      <<"### ", "heading">>,
      <<"> ", "text">>,
      <<"(fence)", "alt-text">>,
      <<"(fence)">> }

Gemtexts == UNION {[1..n -> GemLinePool] : n \in 0..MaxGemLines}

InitGemtext ==
    /\ FrontInit
    /\ FetchIdle
    /\ arg \in Gemtexts
    /\ ret = NoRet

ConvertGemtext ==
    /\ ret = NoRet
    /\ ret' = gemtext_to_markdown(arg)
    /\ UNCHANGED <<arg, frontVars, fetchVars, panelVars, buttonVars, bookmarkVars>>

NextGemtext == ConvertGemtext

SpecGemtext == InitGemtext /\ [][NextGemtext]_vars

\* ------------------------------------------------ gopher.rs: parse_gopher_url
\* gopher://host[:port]/[type][selector], as the sequence of its pieces
NoPort == ""
GopherPaths ==
    { <<>>, <<"/">>, <<"/", "1">>, <<"/", "1", "/docs">>,
      <<"/", "0", "/readme.txt">>, <<"/", "x", "/odd">> }

\* what a URL is written from
UrlParts ==
    [scheme : {"gopher://", "http://"},
     host : {"example.com", ""},
     port : {NoPort, "70", "7070"},
     path : GopherPaths]

UrlString(parts) ==
    <<parts.scheme>> \o Text(parts.host)
        \o (IF parts.port = NoPort THEN <<>> ELSE <<":", parts.port>>)
        \o parts.path

DropFirst(s, n) == SubSeq(s, n + 1, Len(s))

\* the port is always the default one
ParseGopherUrl_DefaultPort(url) ==
    IF url[1] # "gopher://" \/ Len(url) < 2 \/ url[2] \in {"/", ":"}
    THEN <<"Err", "InvalidUrl">>
    ELSE LET rest == DropFirst(url, 2)
             path == IF rest # <<>> /\ rest[1] = ":" THEN DropFirst(rest, 2) ELSE rest
         IN  <<"Ok", [host |-> url[2], port |-> 70,
                      item_type |-> IF Len(path) >= 2 THEN from_char(path[2])
                                    ELSE <<"Directory">>,
                      selector |-> IF Len(path) >= 3 THEN path[3] ELSE ""]>>

\* parse_gopher_url: Ok(GopherUrl { host, port, item_type, selector }) or
\* Err(InvalidUrl)
ParseGopherUrl(url) ==
    IF url[1] # "gopher://" \/ Len(url) < 2 \/ url[2] \in {"/", ":"}
    THEN <<"Err", "InvalidUrl">>
    ELSE LET rest == DropFirst(url, 2)
             explicit == rest # <<>> /\ rest[1] = ":"
             path == IF explicit THEN DropFirst(rest, 2) ELSE rest
         IN  <<"Ok", [host |-> url[2],
                      port |-> IF explicit THEN ParsePort(rest[2]) ELSE 70,
                      item_type |-> IF Len(path) >= 2 THEN from_char(path[2])
                                    ELSE <<"Directory">>,
                      selector |-> IF Len(path) >= 3 THEN path[3] ELSE ""]>>

MaxParses == 2

InitParseUrl ==
    /\ FrontInit
    /\ FetchIdle
    /\ arg \in UrlParts
    /\ ret = NoRet

\* ret: the result and the number of times the string was parsed
ParseUrl ==
    /\ ret = NoRet
    /\ ret' = <<ParseGopherUrl(UrlString(arg)), 1>>
    /\ UNCHANGED <<arg, frontVars, fetchVars, panelVars, buttonVars, bookmarkVars>>

ParseUrlAgain ==
    /\ ret # NoRet
    /\ ret[2] < MaxParses
    /\ ret' = <<ParseGopherUrl(UrlString(arg)), ret[2] + 1>>
    /\ UNCHANGED <<arg, frontVars, fetchVars, panelVars, buttonVars, bookmarkVars>>

NextParseUrl == ParseUrl \/ ParseUrlAgain

SpecParseUrl == InitParseUrl /\ [][NextParseUrl]_vars

\* ------------------------------------------------------------ reloadPage
\* reloadPage up to its await: goHome() without a current path or on the
\* home page, loadPath(currentPath, false) otherwise
ReloadPage ==
    /\ Len(pending) < MaxPending
    /\ IF currentPath = NULL \/ currentPath = HOME_PATH
       THEN /\ historyIndex + 2 + NumAdding(pending) <= MaxHist
            /\ StartGoHome
       ELSE loadPath(currentPath, FALSE)
    /\ bf' = BfNone
    /\ UNCHANGED <<history, historyIndex, currentPath, currentUrl,
                   geminiInputUrl, dialogOpen, dialogSensitive, opCount>>

\* a session in which the home button is not used: every goHome call is
\* reloadPage's, or loadPath's for the home entry of the history
NextReload ==
    /\ \/ \E path \in Requests : Navigate(path)
       \/ GoBack
       \/ GoForward
       \/ ReloadPage
       \/ Settle
       \/ CloseGeminiInputDialog
       \/ \E input \in InputTexts : HandleGeminiInputSubmit(input)
    /\ UNCHANGED <<fetchVars, pureVars, panelVars, buttonVars, bookmarkVars>>

SpecReload == Init /\ [][NextReload]_vars

\* -------------------------------------------------- overlapping navigations
\* Navigations started while earlier loads are still awaited, every backend
\* call succeeding with the URL it was asked for.
MaxOverlap == 2        \* loads in flight at once
MaxOverlapHist == 3    \* longest history explored with overlapping loads

OverlapGuard(n, add) ==
    /\ Len(pending) < n
    /\ Len(history) + NumAdding(pending) + (IF add THEN 1 ELSE 0) <= MaxOverlapHist

\* loadPath(path): a link, a typed location, the home button
LoadOver(n, path) ==
    /\ OverlapGuard(n, TRUE)
    /\ loadPath(path, TRUE)
    /\ bf' = BfNone
    /\ UNCHANGED <<history, historyIndex, currentPath, currentUrl,
                   geminiInputUrl, dialogOpen, dialogSensitive, opCount>>

BackOver(n) ==
    LET r == historyBack(history, historyIndex)
    IN  /\ r.path # NULL
        /\ OverlapGuard(n, r.path = HOME_PATH)
        /\ historyIndex' = r.historyIndex
        /\ loadPath(r.path, FALSE)
        /\ bf' = BfNone
        /\ UNCHANGED <<history, currentPath, currentUrl,
                       geminiInputUrl, dialogOpen, dialogSensitive, opCount>>

ForwardOver(n) ==
    LET r == historyForward(history, historyIndex)
    IN  /\ r.path # NULL
        /\ OverlapGuard(n, r.path = HOME_PATH)
        /\ historyIndex' = r.historyIndex
        /\ loadPath(r.path, FALSE)
        /\ bf' = BfNone
        /\ UNCHANGED <<history, currentPath, currentUrl,
                       geminiInputUrl, dialogOpen, dialogSensitive, opCount>>

\* a backend call succeeds, with no final URL or with the URL asked for
SettleOk ==
    \E k \in 1..Len(pending) : \E res \in {Ok(NULL), Ok(pending[k].url)} :
        \/ CompleteGoHome(k, res)
        \/ CompleteLoadPath(k, res)
        \/ CompleteLoadUrl(k, res, TRUE)
        \/ CompleteLoadGeminiUrl(k, res)

NextOverlap(n) ==
    /\ \/ \E path \in Requests \cup {HOME_PATH} : LoadOver(n, path)
       \/ BackOver(n)
       \/ ForwardOver(n)
       \/ SettleOk
    /\ UNCHANGED <<fetchVars, pureVars, panelVars, buttonVars, bookmarkVars>>

SpecOverlap == Init /\ [][NextOverlap(MaxOverlap)]_vars

\* the same session with one load at a time
SpecInTurn == Init /\ [][NextOverlap(1)]_vars

\* ------------------------------------------------ navigation, with progress
\* the user answers an open input dialog: send, Enter, cancel, close, click
\* outside or Escape
AnswerDialog ==
    /\ dialogOpen
    /\ \/ CloseGeminiInputDialog
       \/ \E input \in InputTexts : HandleGeminiInputSubmit(input)
    /\ UNCHANGED <<fetchVars, pureVars, panelVars, buttonVars, bookmarkVars>>

\* a promise of invoke() settles
SettleStep == Settle /\ UNCHANGED <<fetchVars, pureVars, panelVars, buttonVars, bookmarkVars>>

\* a call settles with content or with an ordinary error
SettleFinal == SettleStep /\ content' \in {"rendered", "error"}

\* every backend call settles, every open dialog is answered, and a server
\* asked again and again does not answer with a prompt for ever
SpecFair ==
    Spec /\ WF_vars(SettleStep) /\ WF_vars(AnswerDialog) /\ SF_vars(SettleFinal)

\* ------------------------------------------- the Back and Forward buttons
\* updateNavigationButtons(): both buttons follow the history as it is now
updateNavigationButtons ==
    /\ btnBackDisabled' = ~canGoBack(historyIndex')
    /\ btnForwardDisabled' = ~canGoForward(history', historyIndex')

\* a backend call settles; only the success branch of its caller ends
\* with updateNavigationButtons(), the catch branch does not call it
SettleButtons ==
    \E k \in 1..Len(pending) : \E res \in Results(pending[k].url) :
        /\ \/ CompleteGoHome(k, res)
           \/ CompleteLoadPath(k, res)
           \/ \E accept \in BOOLEAN : CompleteLoadUrl(k, res, accept)
           \/ CompleteConvertAndLoad(k, res)
           \/ CompleteLoadGeminiUrl(k, res)
           \/ CompleteSubmitGeminiInput(k, res)
        /\ IF res.ok THEN updateNavigationButtons ELSE UNCHANGED buttonVars

NextButtons ==
    /\ \/ /\ \/ GoHome
             \/ \E path \in Requests : Navigate(path)
             \/ GoBack
             \/ GoForward
             \/ CloseGeminiInputDialog
             \/ \E input \in InputTexts : HandleGeminiInputSubmit(input)
          /\ UNCHANGED buttonVars
       \/ SettleButtons
    /\ UNCHANGED <<fetchVars, pureVars, panelVars, bookmarkVars>>

SpecButtons == Init /\ [][NextButtons]_vars

\* -------------------------------------------------------- toggleBookmark
\* toggleBookmark calls at most
MaxToggles == 2

\* getCurrentLocation(): state.currentUrl || state.currentPath
getCurrentLocation == Or(currentUrl, currentPath)

\* a bookmark of the backend's list
Bookmark(id, url) == [id |-> id, url |-> url]

\* is_bookmarked: some bookmark of the list has this URL
is_bookmarked(list, url) == \E j \in 1..Len(list) : list[j].url = url

\* bookmarks.find(b => b.url === url): the first one, or undefined
NoBookmark == Bookmark(0, NULL)
find(list, url) ==
    IF is_bookmarked(list, url)
    THEN list[CHOOSE j \in 1..Len(list) :
                  /\ list[j].url = url
                  /\ \A m \in 1..(j - 1) : list[m].url # url]
    ELSE NoBookmark

\* the list without the bookmarks of this id
Without(list, id) == SelectSeq(list, LAMBDA b : b.id # id)

\* the ids the backend has not given out yet follow the largest one in use
\* or remembered by a call
NextId ==
    LET used == {bookmarks[j].id : j \in 1..Len(bookmarks)}
                    \cup {toggles[t].id : t \in 1..Len(toggles)} \cup {0}
    IN  1 + CHOOSE n \in used : \A m \in used : m <= n

\* what the backend may answer: the command is carried out, or rejected
Done(list) == [ok |-> TRUE, list |-> list]
Rejected(list) == [ok |-> FALSE, list |-> list]

\* add_bookmark: the bookmark is appended; where the URL is already
\* listed the backend may also leave the list as it is, or refuse
add_bookmark(list, id, url) ==
    {Done(Append(list, Bookmark(id, url)))}
        \cup (IF is_bookmarked(list, url) THEN {Done(list), Rejected(list)} ELSE {})

\* remove_bookmark: the bookmark of this id is taken out; where there is
\* none the backend may accept or refuse
remove_bookmark(list, id) ==
    IF \E j \in 1..Len(list) : list[j].id = id
    THEN {Done(Without(list, id))}
    ELSE {Done(list), Rejected(list)}

\* a toggleBookmark call: where it stands, its url, the id it found, and
\* the backend calls it has made
Toggle(pc, url, id, calls) == [pc |-> pc, url |-> url, id |-> id, calls |-> calls]

InFlight == {t \in 1..Len(toggles) : toggles[t].pc # "done"}

\* the call goes on to its next await, having made one more backend call
Advance(t, pc, id) ==
    toggles' = [toggles EXCEPT ![t] = Toggle(pc, @.url, id, @.calls + 1)]

\* if (isBookmarked) { get_bookmarks ... } else { add_bookmark ... }
AfterIsBookmarked(isBookmarked) ==
    IF isBookmarked THEN "get_bookmarks" ELSE "add_bookmark"

\* toggleBookmark() up to its first await; at most n calls are in flight
ToggleBookmark(n) ==
    LET url == getCurrentLocation
    IN  /\ Len(toggles) < MaxToggles
        /\ Cardinality(InFlight) < n
        /\ toggles' = Append(toggles,
               IF url = NULL \/ url = HOME_PATH
               THEN Toggle("done", url, 0, 0)
               ELSE Toggle("is_bookmarked", url, 0, 0))
        /\ UNCHANGED <<bookmarks, btnBookmarked, beganBookmarked>>

\* await invoke('is_bookmarked', { url })
IsBookmarkedReturns(t) ==
    /\ toggles[t].pc = "is_bookmarked"
    /\ Advance(t, AfterIsBookmarked(is_bookmarked(bookmarks, toggles[t].url)), 0)
    /\ UNCHANGED <<bookmarks, btnBookmarked, beganBookmarked>>

\* await invoke('get_bookmarks'); bookmarks.find(...)
GetBookmarksReturns(t) ==
    LET bookmark == find(bookmarks, toggles[t].url)
    IN  /\ toggles[t].pc = "get_bookmarks"
        /\ IF bookmark # NoBookmark
           THEN Advance(t, "remove_bookmark", bookmark.id)
           ELSE Advance(t, "loadBookmarks", 0)
        /\ UNCHANGED <<bookmarks, btnBookmarked, beganBookmarked>>

\* await invoke('remove_bookmark', { id }); updateBookmarkButtonUI(false)
RemoveBookmarkReturns(t) ==
    /\ toggles[t].pc = "remove_bookmark"
    /\ \E answer \in remove_bookmark(bookmarks, toggles[t].id) :
          /\ bookmarks' = answer.list
          /\ IF answer.ok
             THEN /\ btnBookmarked' = FALSE
                  /\ Advance(t, "loadBookmarks", toggles[t].id)
             ELSE /\ UNCHANGED btnBookmarked
                  /\ Advance(t, "done", toggles[t].id)
    /\ UNCHANGED beganBookmarked

\* await invoke('add_bookmark', { title, url }); updateBookmarkButtonUI(true)
AddBookmarkReturns(t) ==
    /\ toggles[t].pc = "add_bookmark"
    /\ \E answer \in add_bookmark(bookmarks, NextId, toggles[t].url) :
          /\ bookmarks' = answer.list
          /\ IF answer.ok
             THEN /\ btnBookmarked' = TRUE
                  /\ Advance(t, "loadBookmarks", 0)
             ELSE /\ UNCHANGED btnBookmarked
                  /\ Advance(t, "done", 0)
    /\ UNCHANGED beganBookmarked

\* await loadBookmarks(): get_bookmarks, and the list is drawn again
LoadBookmarksReturns(t) ==
    /\ toggles[t].pc = "loadBookmarks"
    /\ Advance(t, "done", toggles[t].id)
    /\ UNCHANGED <<bookmarks, btnBookmarked, beganBookmarked>>

\* where the user can be: nowhere yet, at home, on a file, on a page
Locations ==
    {[url |-> NULL, path |-> NULL], [url |-> NULL, path |-> HOME_PATH],
     [url |-> NULL, path |-> FileA], [url |-> HttpA, path |-> NULL]}

\* the lists the toggles can start from: another page's bookmark or none,
\* then this page's bookmark or none
StoredLists(url) ==
    {other \o this :
        other \in {<<>>, <<Bookmark(1, HttpB)>>},
        this \in {<<>>} \cup (IF url = NULL \/ url = HOME_PATH THEN {}
                              ELSE {<<Bookmark(2, url)>>})}

\* a page is displayed and updateBookmarkButton() has shown its status
InitBookmarks ==
    /\ \E loc \in Locations :
          /\ currentUrl = loc.url
          /\ currentPath = loc.path
          /\ urlBar = Or(loc.url, loc.path)
          /\ content = IF Or(loc.url, loc.path) = NULL THEN "blank" ELSE "rendered"
          /\ bookmarks \in StoredLists(Or(loc.url, loc.path))
    /\ btnBookmarked = is_bookmarked(bookmarks, getCurrentLocation)
    /\ beganBookmarked = is_bookmarked(bookmarks, getCurrentLocation)
    /\ toggles = <<>>
    /\ history = <<>>
    /\ historyIndex = -1
    /\ geminiInputUrl = NULL
    /\ dialogOpen = FALSE
    /\ dialogSensitive = FALSE
    /\ pending = <<>>
    /\ bf = BfNone
    /\ opCount = 0
    /\ btnBackDisabled = TRUE
    /\ btnForwardDisabled = TRUE
    /\ bookmarksPanelHidden = TRUE
    /\ settingsPanelHidden = TRUE
    /\ FetchIdle
    /\ PureIdle

NextBookmarks(n) ==
    /\ \/ ToggleBookmark(n)
       \/ \E t \in 1..Len(toggles) : IsBookmarkedReturns(t)
       \/ \E t \in 1..Len(toggles) : GetBookmarksReturns(t)
       \/ \E t \in 1..Len(toggles) : RemoveBookmarkReturns(t)
       \/ \E t \in 1..Len(toggles) : AddBookmarkReturns(t)
       \/ \E t \in 1..Len(toggles) : LoadBookmarksReturns(t)
    /\ UNCHANGED <<frontVars, fetchVars, pureVars, panelVars, buttonVars>>

\* the toggleBookmark calls overlap as the event loop lets them
SpecBookmarks == InitBookmarks /\ [][NextBookmarks(MaxToggles)]_vars

\* each toggleBookmark call ends before the next one starts
SpecBookmarksInTurn == InitBookmarks /\ [][NextBookmarks(1)]_vars

\* ------------------------------------------------------------------ claims

\* C1: trust store verify, over every sequence of verifications of a key:
\* with no entry the verdict is FirstUse and the presented fingerprint is
\* recorded; with the recorded fingerprint it is Match and nothing is written;
\* with another fingerprint it is Mismatch, the fetch ends in
\* CertificateMismatch and the store is left as it was. Hence the stored
\* fingerprint of a key is always the first one recorded for it.
C1_TofuVerify ==
    [][\A t \in Tasks :
          Decide(t) =>
              LET h == task[t].host
                  e == known[h]
                  c == task[t].fp
              IN  /\ e = NoFp =>
                        /\ task'[t].verdict = "FirstUse"
                        /\ known' = [known EXCEPT ![h] = c]
                  /\ e = c =>
                        /\ task'[t].verdict = "Match"
                        /\ known' = known
                  /\ e \notin {NoFp, c} =>
                        /\ task'[t].verdict = "Mismatch"
                        /\ task'[t].outcome = "CertificateMismatch"
                        /\ known' = known
                  /\ known' = first']_vars

\* C1, its case: one fetch was verified three times against the only key of
\* the store: first use, match (two requests went out), then a mismatch
C1_Witness ==
    \E t \in Tasks : \E h \in Hosts :
        /\ task[t].verdict = "Mismatch"
        /\ task[t].outcome = "CertificateMismatch"
        /\ task[t].requests = 2
        /\ known[h] # NoFp /\ known[h] = first[h]
        /\ \A g \in Hosts \ {h} : known[g] = NoFp

\* C2: redirect following is bounded by the hop limit: a fetch follows at
\* most MAX_REDIRECTS redirects and issues at most MAX_REDIRECTS + 1 requests;
\* a redirect response after the last followed redirect ends the fetch in
\* RedirectLoop; a fetch is done exactly when it has an outcome, the outcome
\* never changes, and every running fetch eventually is done.
C2_RedirectsBounded ==
    /\ [](\A t \in Tasks :
             /\ task[t].hops <= MAX_REDIRECTS
             /\ task[t].requests <= MAX_REDIRECTS + 1
             /\ (task[t].pc = "done") <=> (task[t].outcome # "none"))
    /\ [][\A t \in Tasks :
             /\ \A status \in {30, 31} : \A target \in Urls :
                   (Classify(t, status, target) /\ task[t].hops = MAX_REDIRECTS)
                       => task'[t].outcome = "RedirectLoop"
             /\ task[t].outcome # "none" => task'[t] = task[t]]_vars
    /\ \A t \in Tasks : (task[t].pc # "idle") ~> (task[t].pc = "done")

\* C2, its case: a sixth redirect response ended the fetch after six requests
C2_Witness ==
    \E t \in Tasks :
        /\ task[t].outcome = "RedirectLoop"
        /\ task[t].requests = MAX_REDIRECTS + 1
        /\ task[t].conns = MAX_REDIRECTS + 1

\* C3: when fetch_gemini ends with an input-required outcome, loadGeminiUrl
\* opens the input dialog bound to the requested URL, sensitive exactly for
\* status 11, shows no error page (it leaves the content area as it is: the
\* loading placeholder of this load), starts no backend call, and leaves
\* history, historyIndex and currentUrl as they were.
C3_InputRequiredOpensDialog ==
    [][\A k \in 1..Len(pending) : \A status \in {10, 11} :
          CompleteLoadGeminiUrl(k, Err(GeminiInputErrorString(status))) =>
              /\ dialogOpen'
              /\ geminiInputUrl' = pending[k].url
              /\ dialogSensitive' = (status = 11)
              /\ pending' = Remove(pending, k)
              /\ UNCHANGED <<content, history, historyIndex, currentUrl>>]_vars

\* the sensitive dialog is open for the requested Gemini URL over the loading
\* placeholder, with a history behind it and nothing in flight
C3_Witness ==
    /\ dialogOpen
    /\ dialogSensitive
    /\ geminiInputUrl = GemA
    /\ content = "loading"
    /\ pending = <<>>
    /\ Len(history) > 0

\* C4: goBack immediately followed by goForward, both loads succeeding, ends at the
\* original historyIndex with the history list unchanged, for entries of any
\* kind, the home page included.
C4_BackForwardRoundTrip ==
    bf.phase = "done" => history = bf.h /\ historyIndex = bf.i

\* the same round trip when neither entry loaded is the home page
C4_RoundTripOffHome ==
    (bf.phase = "done" /\ At(bf.h, bf.i - 1) # HOME_PATH /\ At(bf.h, bf.i) # HOME_PATH)
        => history = bf.h /\ historyIndex = bf.i

\* C5 as stated: history never holds more than MAX_HISTORY_SIZE entries, and
\* every addToHistory on a full history evicts exactly the oldest entry and
\* keeps the other 49 and the new entry in order.
C5_EvictsOldestOnEveryFullAdd ==
    [][/\ Len(history') <= MAX_HISTORY_SIZE
       /\ \A path \in Requests \cup {HOME_PATH} :
             (AddToHistoryOp(path) /\ Len(history) = MAX_HISTORY_SIZE)
                 => history' = Append(Tail(history), path)]_vars

\* C5 (amended): history never holds more than MAX_HISTORY_SIZE entries; an
\* addToHistory on a full history whose historyIndex is at the last entry
\* evicts exactly the oldest entry and keeps the other 49 and the new entry in
\* order; with historyIndex before the last entry it drops the entries after
\* historyIndex instead and evicts nothing.
C5_HistoryBounded ==
    [][/\ Len(history) <= MAX_HISTORY_SIZE
       /\ Len(history') <= MAX_HISTORY_SIZE
       /\ \A path \in Requests \cup {HOME_PATH} :
             (AddToHistoryOp(path) /\ Len(history) = MAX_HISTORY_SIZE) =>
                 IF historyIndex = MAX_HISTORY_SIZE - 1
                 THEN /\ history' = Append(Tail(history), path)
                      /\ historyIndex' = MAX_HISTORY_SIZE - 1
                 ELSE /\ history' = Append(SubSeq(history, 1, historyIndex + 1), path)
                      /\ historyIndex' = historyIndex + 1]_vars

\* a full history whose oldest entry has been evicted: the home page that
\* every initial history starts with is gone
C5_Witness ==
    /\ opCount > 0
    /\ Len(history) = MAX_HISTORY_SIZE
    /\ historyIndex = MAX_HISTORY_SIZE - 1
    /\ history[1] # HOME_PATH

\* C6: verify/record is serialized per key: with connection attempts running
\* at once, a verification returns FirstUse exactly when the store has no
\* entry of its key at the moment of the verdict, and Mismatch exactly when
\* the entry differs from the presented fingerprint; so a key sees at most one
\* FirstUse, whose fingerprint is the one persisted, and a verdict on one key
\* leaves the entries of the other keys alone.
C6_FirstContactsSerialized ==
    /\ [](\A h \in Hosts :
             /\ firstUses[h] <= 1
             /\ (firstUses[h] = 1) <=> (known[h] # NoFp)
             /\ known[h] = first[h])
    /\ [][\A t \in Tasks :
             Decide(t) =>
                 LET h == task[t].host
                 IN  /\ (task'[t].verdict = "FirstUse") <=> (known[h] = NoFp)
                     /\ (task'[t].verdict = "Mismatch")
                            <=> (known[h] \notin {NoFp, task[t].fp})
                     /\ task'[t].verdict = "FirstUse" => known'[h] = task[t].fp
                     /\ \A g \in Hosts \ {h} : known'[g] = known[g]]_vars

\* C6, its case: two attempts, each on its first connection, met on the only
\* key of the store: one was the first use, the other a mismatch
C6_Witness ==
    \E t1, t2 \in Tasks : \E h \in Hosts :
        /\ t1 # t2
        /\ task[t1].verdict = "FirstUse" /\ task[t1].conns = 1
        /\ task[t2].verdict = "Mismatch" /\ task[t2].conns = 1
        /\ known[h] # NoFp
        /\ \A g \in Hosts \ {h} : known[g] = NoFp

\* C7: a fetch abandoned before its handshake verification has completed
\* records nothing: the abandoning step leaves the store alone, and after it
\* the store is what it was before the fetch started (empty); the store
\* changes only in a verdict step whose verdict is FirstUse.
C7_CancelledRecordsNothing ==
    /\ [](\A t \in Tasks :
             (/\ task[t].outcome = "Cancelled"
              /\ task[t].requests = 0
              /\ task[t].verdict = "none")
                 => known = [h \in Hosts |-> NoFp])
    /\ [][/\ \A t \in Tasks : Cancel(t) => known' = known
          /\ known' # known =>
                \E t \in Tasks : Decide(t) /\ task'[t].verdict = "FirstUse"]_vars

\* C7, its case: a Gemini fetch abandoned during the handshake of its first
\* connection
C7_Witness ==
    \E t \in Tasks :
        /\ task[t].outcome = "Cancelled"
        /\ task[t].proto = "gemini"
        /\ task[t].conns = 1
        /\ task[t].requests = 0
        /\ task[t].verdict = "none"

\* C8: on a Gemini connection the request line is written only after the
\* verdict FirstUse or Match; on Mismatch the connection is closed with no
\* request bytes sent on it and the fetch ends in CertificateMismatch, which a
\* generic TLS failure never is.
C8_RequestOnlyAfterTrust ==
    \A t \in Tasks :
        /\ (task[t].proto = "gemini" /\ task[t].sent)
               => task[t].verdict \in {"FirstUse", "Match"}
        /\ task[t].verdict = "Mismatch" =>
               /\ ~task[t].sent
               /\ task[t].pc = "done"
               /\ task[t].outcome = "CertificateMismatch"
        /\ task[t].outcome = "CertificateMismatch" => task[t].verdict = "Mismatch"
        /\ task[t].outcome = "TlsError" => task[t].verdict = "none"

\* C8, its case: a connection closed on a mismatch
C8_Witness ==
    \E t \in Tasks :
        /\ task[t].verdict = "Mismatch"
        /\ task[t].outcome = "CertificateMismatch"
        /\ task[t].conns >= 1
        /\ ~task[t].sent

\* C9 as stated: the read of a response longer than the ceiling always ends
\* in OversizedResponse.
C9_OversizedAlwaysReported ==
    [][\A t \in Tasks :
          (/\ task[t].pc = "read"
           /\ task[t].respLen > MAX_RESPONSE_SIZE
           /\ task'[t].pc # "read")
              => task'[t].outcome = "OversizedResponse"]_vars

\* C9: the read never goes past the ceiling; the read of a response longer
\* than the ceiling ends in OversizedResponse, unless the deadline passes or
\* the caller abandons the fetch before the ceiling is reached, and in every
\* case without a parser or converter invoked on the bytes read; a fetch that
\* ended in OversizedResponse read exactly up to the ceiling.
C9_OversizedNeverParsed ==
    /\ [](\A t \in Tasks :
             /\ task[t].bytesRead <= MAX_RESPONSE_SIZE
             /\ task[t].outcome = "OversizedResponse" =>
                    /\ task[t].bytesRead = MAX_RESPONSE_SIZE
                    /\ ~task[t].parsed)
    /\ [][\A t \in Tasks :
             /\ (/\ task[t].pc = "read"
                 /\ task[t].respLen > MAX_RESPONSE_SIZE
                 /\ task'[t].pc # "read")
                    => /\ task'[t].pc = "done"
                       /\ task'[t].outcome \in
                              {"OversizedResponse", "Timeout", "Cancelled"}
                       /\ ~task'[t].parsed
                       /\ (task'[t].bytesRead = MAX_RESPONSE_SIZE
                               => task'[t].outcome = "OversizedResponse")
             /\ (task'[t].parsed /\ ~task[t].parsed)
                    => task[t].respLen <= MAX_RESPONSE_SIZE]_vars

\* C9, its case: a response longer than the ceiling, read up to the ceiling
\* and reported
C9_Witness ==
    \E t \in Tasks :
        /\ task[t].outcome = "OversizedResponse"
        /\ task[t].respLen > MAX_RESPONSE_SIZE
        /\ task[t].bytesRead = MAX_RESPONSE_SIZE
        /\ ~task[t].parsed

C11_CategoryByFirstDigit ==
    ret # NoRet =>
        /\ \A i \in 1..2 :
              LET d == arg[i] \div 10
              IN  /\ ret[i].code = arg[i]
                  /\ d = 1 => ret[i].category = "Input"
                  /\ d = 2 => ret[i].category = "Success"
                  /\ d = 3 => ret[i].category = "Redirect"
                  /\ d = 4 => ret[i].category = "TemporaryFailure"
                  /\ d = 5 => ret[i].category = "PermanentFailure"
                  /\ d = 6 => ret[i].category = "CertRequired"
                  /\ (ret[i].body # NoBody) <=> (d = 2)
        /\ (arg[1] \div 10 = arg[2] \div 10) => ret[1].category = ret[2].category

\* C11, its case: two codes of one first digit that the protocol does not
\* name, read as one category, and with their bodies
C11_Witness ==
    /\ ret # NoRet
    /\ arg = <<25, 29>>
    /\ ret[1].category = "Success" /\ ret[2].category = "Success"
    /\ ret[1].body = SomeBody

\* C12: no automatic retry: a call of loadGeminiUrl or submitGeminiInput puts
\* exactly one backend invocation in flight (fetch_gemini with the URL,
\* submit_gemini_input with the URL and the text); when it fails with an
\* ordinary error the error page is shown, the invocation is gone and no
\* other one is started by that step.
C12_NoAutomaticRetry ==
    [][/\ \A k \in 1..Len(pending) :
             (\/ CompleteLoadGeminiUrl(k, Err(GenericError))
              \/ CompleteSubmitGeminiInput(k, Err(GenericError)))
                 => /\ content' = "error"
                    /\ Len(pending') = Len(pending) - 1
                    /\ \A j \in 1..Len(pending') : \E m \in 1..Len(pending) :
                           m # k /\ pending'[j] = pending[m]
                    /\ UNCHANGED <<dialogOpen, geminiInputUrl>>
       /\ \A url \in {GemA} :
             Navigate(url) =>
                 pending' = Append(pending, Call("loadGeminiUrl", url, TRUE, NULL))
       /\ \A input \in InputTexts :
             (HandleGeminiInputSubmit(input) /\ geminiInputUrl # NULL) =>
                 pending' = Append(pending,
                     Call("submitGeminiInput", geminiInputUrl, TRUE, input))]_vars

\* C12, its case: a Gemini load failed before anything was ever loaded: the
\* error page, nothing in flight
C12_Witness ==
    /\ content = "error"
    /\ urlBar = GemA
    /\ pending = <<>>
    /\ history = <<>>
    /\ ~dialogOpen

\* the success of a load of the named function, settled with a result
SettledOk(k, res) ==
    \/ \E accept \in BOOLEAN : CompleteLoadUrl(k, res, accept)
    \/ CompleteConvertAndLoad(k, res)
    \/ CompleteLoadGeminiUrl(k, res)
    \/ CompleteSubmitGeminiInput(k, res)

\* C13: after a successful loadUrl, convertAndLoad, loadGeminiUrl or
\* submitGeminiInput, currentUrl, the URL bar and, when a history entry is
\* added, the new top history entry all equal the final URL of the result,
\* or the requested URL when the result carries none.
C13_FinalUrlEverywhere ==
    [][\A k \in 1..Len(pending) : \A res \in Results(pending[k].url) :
          (res.ok /\ SettledOk(k, res)) =>
              LET final == Or(res.url, pending[k].url)
              IN  /\ currentUrl' = final
                  /\ urlBar' = final
                  /\ pending[k].add =>
                        /\ historyIndex' = Len(history') - 1
                        /\ At(history', historyIndex') = final]_vars

\* C13, what does hold: currentUrl and the added history entry are the final
\* URL (or the requested one), and the URL bar is the final URL whenever the
\* result carries one
C13_FinalUrlButStaleBar ==
    [][\A k \in 1..Len(pending) : \A res \in Results(pending[k].url) :
          (res.ok /\ SettledOk(k, res)) =>
              LET final == Or(res.url, pending[k].url)
              IN  /\ currentUrl' = final
                  /\ res.url # NULL => urlBar' = final
                  /\ res.url = NULL => urlBar' = urlBar
                  /\ pending[k].add =>
                        /\ historyIndex' = Len(history') - 1
                        /\ At(history', historyIndex') = final]_vars

\* C14: when submit_gemini_input itself ends with an input-required outcome,
\* the dialog is shown again bound to the URL that was submitted (so for any
\* number of prompts in a row), and each submit of the dialog closes it and
\* puts in flight exactly one submit_gemini_input with the URL the dialog was
\* bound to and the text typed.
C14_RepeatedPromptSameUrl ==
    [][/\ \A k \in 1..Len(pending) : \A status \in {10, 11} :
             CompleteSubmitGeminiInput(k, Err(GeminiInputErrorString(status))) =>
                 /\ dialogOpen'
                 /\ geminiInputUrl' = pending[k].url
                 /\ dialogSensitive' = (status = 11)
                 /\ Len(pending') = Len(pending) - 1
       /\ \A input \in InputTexts :
             (HandleGeminiInputSubmit(input) /\ geminiInputUrl # NULL) =>
                 /\ pending' = Append(pending,
                        Call("submitGeminiInput", geminiInputUrl, TRUE, input))
                 /\ ~dialogOpen'
                 /\ geminiInputUrl' = NULL]_vars

\* C14, its case: the dialog is open again on the prompt of a submit (the
\* URL bar was cleared by a home load between the first prompt and the
\* submit, and only a prompt leaves the loading placeholder with nothing in
\* flight)
C14_Witness ==
    /\ dialogOpen
    /\ geminiInputUrl = GemA
    /\ content = "loading"
    /\ urlBar = NULL
    /\ pending = <<>>

\* a location typed in the URL bar or followed as a link puts in flight the
\* command cmd with that location
DispatchedTo(u, cmd) ==
    /\ Len(pending') = Len(pending) + 1
    /\ Command(pending'[Len(pending')].fn) = cmd
    /\ pending'[Len(pending')].url = u

\* C15: a gopher:// URL submitted in the URL bar or followed as a link goes
\* to fetch_gopher (and so is neither made an HTTP(S) request nor resolved as
\* a relative link), an http(s):// URL to fetch_url and a gemini:// URL to
\* fetch_gemini.
C15_DispatchByScheme ==
    [][\A u \in TypedInputs \cup Hrefs :
          ((u \in TypedInputs /\ HandleUrlSubmit(u)) \/ (u \in Hrefs /\ FollowLink(u))) =>
              /\ startsWith(u, "gopher://") => DispatchedTo(u, "fetch_gopher")
              /\ (startsWith(u, "http://") \/ startsWith(u, "https://"))
                     => DispatchedTo(u, "fetch_url")
              /\ startsWith(u, GEMINI_SCHEME) => DispatchedTo(u, "fetch_gemini")]_vars

\* C15, what does hold: http(s):// goes to fetch_url and gemini:// to
\* fetch_gemini
C15_HttpAndGeminiDispatch ==
    [][\A u \in TypedInputs \cup Hrefs :
          ((u \in TypedInputs /\ HandleUrlSubmit(u)) \/ (u \in Hrefs /\ FollowLink(u))) =>
              /\ (startsWith(u, "http://") \/ startsWith(u, "https://"))
                     => DispatchedTo(u, "fetch_url")
              /\ startsWith(u, GEMINI_SCHEME) => DispatchedTo(u, "fetch_gemini")]_vars

\* C16: only one side panel can be open at a time: from both panels hidden,
\* after any sequence of the panel toggles, the panel closes, Escape and
\* navigateToBookmark, the two panels are never both visible.
C16_OnePanelAtATime == bookmarksPanelHidden \/ settingsPanelHidden

\* C16, its case: the settings panel is open after the bookmarks panel was
\* open (a bookmark of it is still loading)
C16_Witness ==
    /\ ~settingsPanelHidden
    /\ bookmarksPanelHidden
    /\ pending # <<>>

\* ---- C17..C19: to_markdown
Converted == ret # NoRet /\ arg \in Menus

IsBlank(line) == line = <<>>

\* lines is the rendered lines of items, one for each and in their order,
\* with nothing but blank lines in between
RECURSIVE OneLinePerItem(_, _)
OneLinePerItem(items, lines) ==
    IF items = <<>> THEN \A i \in 1..Len(lines) : IsBlank(lines[i])
    ELSE /\ lines # <<>>
         /\ \/ Head(lines) = Arm(Head(items)).line /\ OneLinePerItem(Tail(items), Tail(lines))
            \/ IsBlank(Head(lines)) /\ OneLinePerItem(items, Tail(lines))

Unmapped(item) == item.item_type[1] \notin LinkTypes \cup {"Info", "Error"}

NamesTypeWithoutLink(item, line) ==
    /\ \E i \in 1..Len(line) : line[i] = description(item.item_type)
    /\ \E i \in 1..Len(line) : line[i] = item.display
    /\ \A i \in 1..Len(line) : line[i] # "]("

\* C17: to_markdown returns for every menu, of items of any type; its output
\* holds one rendered line for each item, in the order of the items, none
\* dropped and no other line than blank ones added; an item of a type without
\* a link mapping gives a line that names the type and holds no link.
C17_OneLinePerItemInOrder ==
    Converted =>
        /\ OneLinePerItem(arg, ret)
        /\ Len(ret) >= Len(arg)
        /\ \A i \in 1..Len(arg) : Unmapped(arg[i]) =>
               \E j \in i..Len(ret) : NamesTypeWithoutLink(arg[i], ret[j])

C17_Witness ==
    /\ Converted
    /\ Len(arg) = MaxItems
    /\ arg[1].item_type = <<"Info">> /\ arg[1].display # ""
    /\ arg[2].item_type = <<"Unknown", "x">>
    /\ arg[3].item_type = <<"Directory">>
    /\ Len(ret) = MaxItems

\* the lines of items with one blank line between every run of info items
\* and the item that follows it
RECURSIVE Separated(_, _, _)
Separated(items, prev_was_info, output) ==
    IF items = <<>> THEN output
    ELSE LET item == Head(items)
             info == item.item_type[1] = "Info"
             out == IF prev_was_info /\ ~info THEN Append(output, <<>>) ELSE output
         IN  Separated(Tail(items), info, Append(out, Arm(item).line))

\* C18: in the output of to_markdown every run of info items that is followed
\* by an item of another type, whichever type, is separated from that item by
\* exactly one blank line.
C18_BlankAfterEveryInfoRun == Converted => ret = Separated(arg, FALSE, <<>>)

\* what the code does: one line for each item, and one blank line for each
\* item of a link type that follows an info item
C18_BlankBeforeLinkItems ==
    Converted =>
        Len(ret) = Len(arg) + Cardinality({i \in 2..Len(arg) :
                       /\ arg[i-1].item_type[1] = "Info"
                       /\ arg[i].item_type[1] \in LinkTypes})

Emoji(item_type) ==
    LET t == item_type[1]
    IN  IF t = "Directory" THEN "(folder) "
        ELSE IF t = "TextFile" THEN "(page) "
        ELSE IF t = "Search" THEN "(search) "
        ELSE IF t = "Html" THEN "(globe) "
        ELSE "(picture) "

\* the target the link of an item is to have
Target(item) ==
    IF item.item_type[1] = "Html" /\ startsWith(item.selector, "URL:")
    THEN Tail(item.selector)
    ELSE <<"gopher://", item.host, ":", ToString(item.port), "/", TypeChar(item.item_type)>>
             \o item.selector

HasLine(lines, line) == \E j \in 1..Len(lines) : lines[j] = line

\* C19: every directory, text file, search, html and image item is rendered
\* as an emoji-prefixed link to gopher://host:port/<type><selector>, but for
\* an html item whose selector starts with "URL:", which links to the
\* selector without that prefix; an info item is rendered as its text, with
\* no link.
C19_LinkTargets ==
    Converted =>
        \A i \in 1..Len(arg) :
            LET item == arg[i]
            IN  /\ item.item_type[1] \in LinkTypes =>
                       HasLine(ret, <<Emoji(item.item_type), "[">> \o Text(item.display)
                                        \o <<"](">> \o Target(item) \o <<")">>)
                /\ item.item_type[1] = "Info" => HasLine(ret, Text(item.display))


\* what the code does: the same, but for html items whose selector does not
\* start with "URL:"
C19_LinkTargetsButPlainHtml ==
    Converted =>
        \A i \in 1..Len(arg) :
            LET item == arg[i]
            IN  /\ /\ item.item_type[1] \in LinkTypes
                   /\ item.item_type[1] = "Html" => startsWith(item.selector, "URL:")
                   => HasLine(ret, <<Emoji(item.item_type), "[">> \o Text(item.display)
                                       \o <<"](">> \o Target(item) \o <<")">>)
                /\ item.item_type[1] = "Html" /\ ~startsWith(item.selector, "URL:")
                   => HasLine(ret, <<"(globe) ", "[">> \o Text(item.display)
                                       \o <<"](">> \o item.selector \o <<")">>)
                /\ item.item_type[1] = "Info" => HasLine(ret, Text(item.display))

\* ---- C20: parse_menu
Parsed == Len(ret) = 2

WellFormed(line) == Len(line) = FieldCount

\* the place in the result of the record of line i
RecordOf(response, i) == Cardinality({j \in 1..i : WellFormed(response[j])})

GemtextDone == Len(ret) = 2

\* line i is read in preformatted mode: an odd number of toggle lines
\* precedes it
InPreformatted(input, i) ==
    Cardinality({j \in 1..(i-1) : IsToggle(input[j])}) % 2 = 1

\* C21: every toggle line flips the preformatted mode and gives a fence line
\* of the output; a line read while the mode is on is copied unchanged, also
\* when it starts with "=>" or "*"; link and list lines are converted only
\* while the mode is off.
C21_PreformattedVerbatim ==
    GemtextDone =>
        LET out == ret[2]
        IN  /\ Len(out) = Len(arg)
            /\ \A i \in 1..Len(arg) :
                   /\ IsToggle(arg[i]) => out[i][1] = "(fence)"
                   /\ InPreformatted(arg, i) /\ ~IsToggle(arg[i]) => out[i] = arg[i]
                   /\ ~InPreformatted(arg, i) /\ IsLink(arg[i]) =>
                          out[i][1] = "[" /\ out[i][4] = arg[i][2]
                   /\ ~InPreformatted(arg, i) /\ IsListItem(arg[i]) =>
                          out[i] = <<"- ">> \o Tail(arg[i])
                   /\ out[i][1] \in {"[", "- "} => ~InPreformatted(arg, i)

C21_Witness ==
    /\ GemtextDone
    /\ Len(arg) = 4
    /\ IsToggle(arg[1]) /\ IsLink(arg[2]) /\ IsToggle(arg[3]) /\ IsLink(arg[4])
    /\ ret[2][2] = arg[2]
    /\ ret[2][4][1] = "["

\* ---- C22: parse_gopher_url
UrlParsed == Len(ret) = 2

ValidGopherParts(parts) == parts.scheme = "gopher://" /\ parts.host # ""

C23_AddTruncatesForward ==
    [][\A path \in Requests \cup {HOME_PATH} : AddToHistoryOp(path) =>
           /\ historyIndex < Len(history) - 1 =>
                  /\ history' = Append(SubSeq(history, 1, historyIndex + 1), path)
                  /\ historyIndex' = Len(history') - 1
           /\ At(history', historyIndex') = path
           /\ ~canGoForward(history', historyIndex')]_vars

\* an entry was added in the middle of the history: the history is shorter
\* than any it started with
C23_Witness ==
    /\ opCount = 1
    /\ Len(history) < MAX_HISTORY_SIZE - HistSlack
    /\ historyIndex = Len(history) - 1
    /\ history[Len(history)] = GemA

HistoryIndexInRange ==
    IF history = <<>> THEN historyIndex = -1
    ELSE 0 <= historyIndex /\ historyIndex <= Len(history) - 1

\* C24: through every sequence of navigation operations historyIndex is -1
\* exactly when history is empty and otherwise an index of history; goBack at
\* index <= 0 and goForward at the last index get null from historyBack and
\* historyForward, which leave history and historyIndex as they are.
C24_HistoryIndexInRange ==
    [][/\ HistoryIndexInRange
       /\ HistoryIndexInRange'
       /\ GoBack /\ historyIndex <= 0 =>
              /\ historyBack(history, historyIndex).path = NULL
              /\ UNCHANGED <<history, historyIndex, pending>>
       /\ GoForward /\ historyIndex = Len(history) - 1 =>
              /\ historyForward(history, historyIndex).path = NULL
              /\ UNCHANGED <<history, historyIndex, pending>>]_vars

\* goBack has been refused at the first entry of a history of two
C24_Witness ==
    /\ Len(history) = 2
    /\ historyIndex = 0
    /\ pending = <<>>
    /\ content = "rendered"
    /\ bf = BfNone

\* ---- C25: failed navigations
\* a backend call settles with an error and the error page is shown
FailedSettle == Len(pending') < Len(pending) /\ content' = "error"

\* the start of a navigation by loadUrl, loadGeminiUrl, loadPath or goHome
StartsLoad == GoHome \/ \E path \in Requests : Navigate(path)

\* C25: a navigation whose backend call fails leaves history, historyIndex,
\* currentUrl and currentPath as they were before it started, whether it was
\* started by loadUrl, loadGeminiUrl, loadPath, goHome, goBack or goForward.
C25_FailedNavigationRestores ==
    [][/\ StartsLoad \/ FailedSettle =>
              UNCHANGED <<history, historyIndex, currentUrl, currentPath>>
       /\ GoBack \/ GoForward => UNCHANGED <<history, currentUrl, currentPath>>
       /\ FailedSettle /\ bf.phase = "back" => historyIndex' = bf.i
       /\ FailedSettle /\ bf.phase = "fwd" => historyIndex' = bf.i - 1]_vars

\* what the code does: a failed load changes none of the four, but goBack
\* and goForward have moved historyIndex before their load starts, and it
\* stays moved when the load fails
C25_FailedLoadKeepsMovedIndex ==
    [][/\ StartsLoad \/ FailedSettle =>
              UNCHANGED <<history, historyIndex, currentUrl, currentPath>>
       /\ GoBack \/ GoForward => UNCHANGED <<history, currentUrl, currentPath>>
       /\ FailedSettle /\ bf.phase = "back" => historyIndex' = bf.i - 1
       /\ FailedSettle /\ bf.phase = "fwd" => historyIndex' = bf.i]_vars

\* ---- C26: reloadPage
\* the location of the page displayed: a URL, or else a local path
Location == IF currentUrl # NULL THEN currentUrl ELSE currentPath

PageDisplayed ==
    /\ content = "rendered"
    /\ pending = <<>>
    /\ Location \notin {NULL, HOME_PATH}

\* C26: with a page other than the home page displayed, however it was
\* reached, reloadPage requests the location of that page again, by a load
\* that adds no history entry, and leaves history and historyIndex as they
\* are.
C26_ReloadSameLocation ==
    [][ReloadPage /\ PageDisplayed =>
           /\ pending' = <<Call(pending'[1].fn, Location, FALSE, NULL)>>
           /\ pending'[1].fn # "goHome"
           /\ UNCHANGED <<history, historyIndex>>]_vars

\* what the code does: reloadPage looks at currentPath alone, which is null
\* after goBack or goForward to a URL, and then goes home
C26_ReloadByCurrentPath ==
    [][ReloadPage /\ PageDisplayed =>
           /\ currentPath # NULL =>
                  pending' = <<Call(pending'[1].fn, currentPath, FALSE, NULL)>>
           /\ currentPath = NULL =>
                  pending' = <<Call("goHome", NULL, TRUE, NULL)>>
           /\ UNCHANGED <<history, historyIndex>>]_vars

\* ---- C27: overlapping navigations
\* C27: when navigations overlap, then in whatever order their backend calls
\* complete, once all have completed and succeeded the page displayed and
\* currentUrl are those of the history entry at historyIndex.
C27_DisplayedIsHistoryEntry ==
    (pending = <<>> /\ history # <<>> /\ content = "rendered")
        => Location = At(history, historyIndex)

\* ---- C28: the Gemini input dialog
\* a step invokes submit_gemini_input
SubmitInvoked ==
    /\ Len(pending') = Len(pending) + 1
    /\ pending'[Len(pending')].fn = "submitGeminiInput"

\* C28: submit_gemini_input is invoked only with the URL an open dialog is
\* pending for, and the invocation clears that URL and closes the dialog, so
\* that each opening gives at most one submit, also when a second submit
\* event fires before the first call has settled; cancel, close, click
\* outside and Escape clear the URL, and a submit event with no pending URL
\* invokes nothing.
C28_OneSubmitPerOpening ==
    [][/\ SubmitInvoked =>
              /\ geminiInputUrl # NULL
              /\ dialogOpen
              /\ pending'[Len(pending')].url = geminiInputUrl
              /\ geminiInputUrl' = NULL
              /\ ~dialogOpen'
       /\ CloseGeminiInputDialog => geminiInputUrl' = NULL /\ ~dialogOpen'
       /\ geminiInputUrl' # NULL /\ geminiInputUrl = NULL => dialogOpen'
       /\ \A input \in InputTexts :
              HandleGeminiInputSubmit(input) /\ geminiInputUrl = NULL =>
                  pending' = pending]_vars

\* a submit is awaited: the dialog is closed and no URL is pending for
\* another
C28_Witness ==
    /\ pending # <<>>
    /\ pending[1].fn = "submitGeminiInput"
    /\ geminiInputUrl = NULL
    /\ ~dialogOpen

\* ---- C29: the loading placeholder
Replaced == content \in {"rendered", "error"}

\* C29: the loading placeholder a navigation puts into the content area is
\* eventually replaced by rendered content or by the error page, whatever
\* the outcome of the backend call and of the dialog it opens.
C29_LoadingEventuallyReplaced == (content = "loading") ~> Replaced

\* what the code does: the placeholder is replaced unless the load ended in
\* an input dialog that was closed without a submit
C29_LoadingReplacedUnlessCancelled ==
    (content = "loading") ~> (Replaced \/ (pending = <<>> /\ ~dialogOpen))

\* the buttons say what the history allows
ButtonsMatch ==
    /\ btnBackDisabled = ~canGoBack(historyIndex)
    /\ btnForwardDisabled = ~canGoForward(history, historyIndex)

\* C30: whenever no navigation is in flight, the Back button is disabled
\* exactly when canGoBack() is false and the Forward button is disabled
\* exactly when canGoForward() is false, also after failed navigations
C30_ButtonsMatchHistory == pending = <<>> => ButtonsMatch

\* what the code gives: the buttons match the history whenever no call is
\* in flight and the page of the last navigation is displayed
C30_ButtonsMatchAfterSuccess ==
    (pending = <<>> /\ content = "rendered") => ButtonsMatch

\* every toggleBookmark call has ended
TogglesDone == InFlight = {}

\* two toggleBookmark calls were made for the page displayed
TwoToggles ==
    /\ Len(toggles) = 2
    /\ \A t \in 1..2 : toggles[t].url = getCurrentLocation
    /\ TogglesDone

\* C31: two toggleBookmark calls for the same page, in every interleaving
\* of their backend calls, leave the page's bookmarked status as it began,
\* and the bookmark button shows that status
C31_TwoTogglesRestore ==
    TwoToggles =>
        /\ is_bookmarked(bookmarks, getCurrentLocation) = beganBookmarked
        /\ btnBookmarked = beganBookmarked

\* what the code gives: one toggleBookmark call alone flips the status of a
\* page and makes no backend call at home or with no location
C31_OneToggleFlips ==
    (Len(toggles) = 1 /\ TogglesDone) =>
        IF toggles[1].url = NULL \/ toggles[1].url = HOME_PATH
        THEN /\ toggles[1].calls = 0
             /\ bookmarks \in StoredLists(getCurrentLocation)
             /\ btnBookmarked = beganBookmarked
        ELSE /\ is_bookmarked(bookmarks, getCurrentLocation) = ~beganBookmarked
             /\ btnBookmarked = ~beganBookmarked

\* the convert_url calls in flight
ConvertCalls(q) == {j \in 1..Len(q) : q[j].fn = "convertAndLoad"}

\* the loadUrl call k ends in its catch branch with the error page: the
\* prompt was declined, or the error was no prompt
LoadUrlRefused(k) ==
    /\ pending[k].fn = "loadUrl"
    /\ pending' = Remove(pending, k)
    /\ content' = "error"

\* the loadUrl call k ends with the prompt accepted: convertAndLoad is called
PromptAccepted(k) ==
    /\ pending[k].fn = "loadUrl"
    /\ Len(pending') = Len(pending)
    /\ pending' = Append(Remove(pending, k), pending'[Len(pending')])
    /\ pending'[Len(pending')].fn = "convertAndLoad"

\* the convertAndLoad call k ends
ConvertSettled(k) ==
    /\ pending[k].fn = "convertAndLoad"
    /\ pending' = Remove(pending, k)

\* the page loaded is added to the history as addToHistory() adds it
EntryAdded ==
    LET a == addToHistory(history, historyIndex, currentUrl')
    IN  history' = a.history /\ historyIndex' = a.historyIndex

\* a refused load starts no convert_url, shows the error page and leaves
\* history, historyIndex and currentUrl alone; an accepted prompt starts
\* one convert_url, which carries the addHistory of the navigation
PromptAnswered(k) ==
    /\ LoadUrlRefused(k) =>
          /\ Cardinality(ConvertCalls(pending')) = Cardinality(ConvertCalls(pending))
          /\ UNCHANGED <<history, historyIndex, currentUrl>>
    /\ PromptAccepted(k) =>
          /\ Cardinality(ConvertCalls(pending')) = Cardinality(ConvertCalls(pending)) + 1
          /\ pending'[Len(pending')].add = pending[k].add
          /\ UNCHANGED <<history, historyIndex, currentUrl>>

\* C32 as stated: declining starts no convert_url, shows the error page and
\* changes neither history, historyIndex nor currentUrl; accepting starts
\* exactly one convert_url, and a history entry is added exactly when the
\* navigation was history-adding
C32_AcceptedAddsEntry ==
    [][\A k \in 1..Len(pending) :
          /\ PromptAnswered(k)
          /\ ConvertSettled(k) =>
                IF pending[k].add THEN EntryAdded
                ELSE UNCHANGED <<history, historyIndex>>]_vars

\* C32 amended: as above, but the entry is added only when convert_url
\* succeeds; when it fails the error page is shown and the history, the
\* index and currentUrl stay as they were
C32_AcceptedAddsEntryOnSuccess ==
    [][\A k \in 1..Len(pending) :
          /\ PromptAnswered(k)
          /\ ConvertSettled(k) =>
                IF content' = "rendered"
                THEN IF pending[k].add THEN EntryAdded
                     ELSE UNCHANGED <<history, historyIndex>>
                ELSE /\ content' = "error"
                     /\ UNCHANGED <<history, historyIndex, currentUrl>>]_vars

\* a conversion accepted for a navigation that adds no history entry (back
\* or forward) is in flight
C32_Witness ==
    \E k \in 1..Len(pending) :
        /\ pending[k].fn = "convertAndLoad"
        /\ ~pending[k].add
        /\ history # <<>>

====
